---- MODULE Spec2Model ----
(***************************************************************************)
(* Model of the drum-kit audio engine: voice allocation (prune, choke,     *)
(* polyphony eviction), the latency window, the engine lifecycle           *)
(* (src/app/lib/audio/engine.ts), the sample loader                        *)
(* (src/app/lib/audio/sample-loader.ts) and the mixer's track mute/solo    *)
(* logic (mixer.ts, found as src/unnamed/part_001).                        *)
(*                                                                         *)
(* Times on the audio clock are in milliseconds.  The wall clock           *)
(* (performance.now) is a separate counter, perfNow.                       *)
(***************************************************************************)
EXTENDS Integers, Sequences, FiniteSets, TLC

VARIABLES
    isInitialized,   \* engine.isInitialized
    jamOutputGain,   \* engine.jamOutputGain: the gain node the mixer is to play into, or null
    ctx,             \* engine.ctx: 0 is null, otherwise the id of an AudioContext
    ctxState,        \* state of engine.ctx: "none", "suspended", "running", "closed"
    now,             \* engine.ctx.currentTime, in ms
    ctxCount,        \* number of AudioContexts created so far
    sampleLoader,    \* engine.sampleLoader: 0 is null, otherwise a loader id
    loader,          \* the SampleLoader singleton of sample-loader.ts
    loaderCount,     \* number of SampleLoader objects created so far
    config,          \* engine.config (the fields the engine reads)
    latencyMetrics,  \* engine.latencyMetrics
    activeVoices,    \* engine.activeVoices: sequence of voice ids (references)
    voices,          \* the ActiveVoice objects, by id
    nextVoiceId,     \* module variable nextVoiceId
    perfNow,         \* performance.now(), in wall-clock units
    initCalls,       \* the initAudioEngine calls suspended at an await, in call order
    lastInit,        \* observer: what the latest initAudioEngine call returned, see noteReturn
    loadBatch,       \* a loadSamples call on the loader, entry by entry (SpecLoader)
    fetching,        \* per URL, the fetches in flight on the current loader
    mixerCtx,        \* mixerEngine.ctx: 0 is null
    mixerDest,       \* mixerEngine.destination: the node the master bus plays into, or null
    stateRef,        \* useMixer's stateRef.current: the MixerState it fetched last, or null
    jam,             \* the JamAlong component: its mix, its refs, the player and the pending timers
    mixerInit,       \* mixerEngine.isInitialized
    mixerTracks,     \* keys of mixerEngine.tracks
    trackState,      \* mixerEngine.state.tracks: id -> [volume, muted, soloed]
    trackGain,       \* target of each track's fader node (track.volume.gain)
    soloActive,      \* mixerEngine.state.soloActive
    mixerReturns,    \* keys of mixerEngine.returns
    returnState,     \* mixerEngine.state.returns: id -> [volume, muted]
    returnGain,      \* target of each return's volume node
    master,          \* mixerEngine.master: the master bus nodes' targets; ctx 0 is null
    masterState,     \* mixerEngine.state.master: volume, compressor, vuMeter (eq is a reference)
    defaultEq,       \* the object DEFAULT_MASTER_BUS.eq, which state.master.eq refers to
    animationFrame,  \* mixerEngine.animationFrame: 0 is null, otherwise a frame id
    pendingFrames,   \* frame ids requested from requestAnimationFrame and not yet run or cancelled
    lastCall,        \* observer: the operation that ran last and what it returned
    recorded         \* observer: every LatencyMetrics entry recorded since the window was last reset

vars == <<isInitialized, jamOutputGain, ctx, ctxState, now, ctxCount, sampleLoader, loader,
          loaderCount, config, latencyMetrics, activeVoices, voices, nextVoiceId,
          perfNow, initCalls, lastInit, loadBatch, fetching, mixerCtx, mixerDest, stateRef, jam, mixerInit, mixerTracks, trackState, trackGain,
          mixerReturns, returnState, returnGain, master, masterState, defaultEq,
          animationFrame, pendingFrames,
          soloActive, lastCall, recorded>>

engineVars == <<isInitialized, jamOutputGain, ctx, ctxState, now, ctxCount, sampleLoader, loader,
                loaderCount, config, latencyMetrics, activeVoices, voices,
                nextVoiceId, perfNow, initCalls, lastInit, loadBatch, fetching, recorded>>

\* The engine's fields other than the loader and its batch.
engineObjects == <<isInitialized, jamOutputGain, ctx, ctxState, now, ctxCount, sampleLoader, config,
                   latencyMetrics, activeVoices, voices, nextVoiceId, perfNow,
                   initCalls, lastInit, recorded>>

\* The master bus, the return tracks and the VU loop.
masterVars == <<mixerReturns, returnState, returnGain, master, masterState, defaultEq,
                animationFrame, pendingFrames>>

mixerVars == <<mixerCtx, mixerDest, stateRef, jam, mixerInit, mixerTracks, trackState, trackGain, soloActive,
               masterVars>>

-----------------------------------------------------------------------------
(* Bounds of the model *)

MaxTicks == 1          \* steps the audio clock of a context advances (Spec)
MaxPerfNow == 2        \* the wall clock stops here: no trigger is accepted later (Spec)
MaxCtx == 1            \* AudioContexts created (Spec)
LifeCtx == 2           \* AudioContexts created (SpecLifecycle)
LifePerfNow == 1       \* wall-clock limit in SpecLifecycle
VoiceTicks == 2        \* clock steps in SpecVoices
VoicePerfNow == 3      \* wall-clock limit in SpecVoices
MaxRecordings == 150   \* wall-clock limit in SpecLatency
VaryUntil == 3         \* SpecLatency: wall-clock time until which calls vary

\* Audio time per clock step, in ms.
TickMs == 16
CfgCtx == 2                 \* SpecConfig: audio contexts ever created
CfgPerfNow == 3             \* SpecConfig: wall-clock time of the last trigger
SchedTicks == 1             \* SpecSchedule: ticks of the audio clock
SchedPerfNow == 2           \* SpecSchedule: wall-clock time of the last trigger
VelPerfNow == 2             \* SpecVelocity: wall-clock time of the last trigger

(* Program constants *)

FADE_OUT_MS == 15           \* FADE_OUT_SEC = 0.015
STOP_GUARD_MS == 1          \* the 0.001 added to the fade for the hard stop
LATENCY_WINDOW == 100       \* "Keep only last 100 measurements"
DefaultMaxVoices == 32      \* engine.config.maxVoices
DefaultSampleRate == 48000  \* engine.config.sampleRate
DefaultVelocity == 100      \* velocity: number = 1.0, in hundredths
MaxInitialGain == 150       \* Math.min(1.5, velocity), in hundredths
DefaultTrackVolume == 8     \* track fader 0.8, in tenths
DefaultMasterVolume == 85   \* DEFAULT_MASTER_BUS.volume 0.85, in hundredths

-----------------------------------------------------------------------------
(* Static data *)

\* DRUM_PADS of lib/types/drum: id, sample path and type of each pad.
DRUM_PADS ==
    { [id |-> "kick",    samplePath |-> "kick.wav",    type |-> "kick"],
      [id |-> "hihat",   samplePath |-> "hihat.wav",   type |-> "hihat"],
      [id |-> "openhat", samplePath |-> "openhat.wav", type |-> "hihat"] }

PadIds == { p.id : p \in DRUM_PADS }

\* Ids a caller may pass: the pads and one id that matches no pad.
DrumIds == PadIds \cup {"bogus"}

SamplePaths == { p.samplePath : p \in DRUM_PADS }

\* Ids (and URLs) of the entries a loadSamples call is given directly.
LoaderIds == {"kick.wav", "snare.wav", "x", "constructor"}

\* Every URL a fetch is made for.
Urls == SamplePaths \cup LoaderIds

\* AudioBuffer.duration of each decoded sample, in ms.
Duration(path) ==
    CASE path = "kick.wav"    -> 20
      [] path = "hihat.wav"   -> 12
      [] path = "openhat.wav" -> 40
      [] OTHER                -> 20

Max(a, b) == IF a >= b THEN a ELSE b
Min(a, b) == IF a <= b THEN a ELSE b

Range(s) == { s[i] : i \in 1..Len(s) }

\* The observer's record of a call: the operation, its drum or track id, the
\* value returned, whether a callback was passed, whether the call raised,
\* the operation it was made by ("" for a caller outside the engine) and
\* its other arguments.
Call(op, drumId, ret, cb, threw, by, args) ==
    [op |-> op, drumId |-> drumId, ret |-> ret, cb |-> cb, threw |-> threw,
     by |-> by, args |-> args]

NoCall == Call("none", "", FALSE, FALSE, FALSE, "", <<>>)

NoLoader == [id |-> 0, ctx |-> 0, samples |-> {}, isLoaded |-> FALSE]

\* No fetch is in flight.
NoFetches == [u \in Urls |-> 0]

\* sampleUrls.map(... loadSample(url, id)): one fetch(url) is issued for each
\* entry of the batch.
startFetches(f, batch) == [u \in Urls |-> IF u \in batch THEN f[u] + 1 ELSE f[u]]

\* The fetch of each URL in batch has settled.
endFetches(f, batch) == [u \in Urls |-> IF u \in batch THEN f[u] - 1 ELSE f[u]]

\* loadAllSamples, lines 121-133: the batch is the keys of the uniqueSamples
\* map, one entry for each distinct samplePath of DRUM_PADS.
uniqueSamples == { p.samplePath : p \in DRUM_PADS }

\* No loadSamples call is being followed entry by entry.
NoBatch == [started |-> FALSE, entries |-> {}, pending |-> {}, failed |-> {},
            done |-> FALSE]

\* Audio nodes the engine and the mixer refer to: null, the destination of
\* context c, or the gain node that the initAudioEngine call which created
\* context `call` has created on context c (one such node per call).
NoNode == [kind |-> "null", call |-> 0, ctx |-> 0]

ctxDestination(c) == [kind |-> "destination", call |-> 0, ctx |-> c]

createGain(call, c) == [kind |-> "gain", call |-> call, ctx |-> c]

DefaultConfig == [maxVoices |-> DefaultMaxVoices, preTriggerOffset |-> 0]

-----------------------------------------------------------------------------
(* Voice helpers of triggerDrum *)

\* Faulty variant of pruneVoices: only the ended flag is looked at.
pruneVoicesEndedOnly(av, vs, t) ==
    SelectSeq(av, LAMBDA id : ~vs[id].ended)

\* pruneVoices: keep the voices that have not ended and whose endTime is ahead.
pruneVoices(av, vs, t) ==
    SelectSeq(av, LAMBDA id : ~vs[id].ended /\ vs[id].endTime > t)

\* Faulty variant of the base time: the current time, whatever the start.
stopBaseTimeNow(t, startTime) == t

\* Line 181: baseTime = Math.max(ctx.currentTime, voice.startTime)
stopBaseTime(t, startTime) == Max(t, startTime)

\* Faulty variants of stopVoice: it disconnects the voice's nodes; or an
\* automation error leaves the voice neither marked nor hard-stopped.
stopVoiceDisconnects(vs, id, t) ==
    IF vs[id].stopped THEN vs
    ELSE LET baseTime == stopBaseTime(t, vs[id].startTime)
         IN [vs EXCEPT ![id].stopped = TRUE,
                       ![id].connected = FALSE,
                       ![id].fadeStart = IF vs[id].gainFaulty THEN @ ELSE baseTime,
                       ![id].fadeEnd = IF vs[id].gainFaulty THEN @
                                       ELSE baseTime + FADE_OUT_MS,
                       ![id].stopAt = baseTime + FADE_OUT_MS + STOP_GUARD_MS]

stopVoiceFaultSkips(vs, id, t) ==
    IF vs[id].stopped \/ vs[id].gainFaulty THEN vs
    ELSE LET baseTime == stopBaseTime(t, vs[id].startTime)
         IN [vs EXCEPT ![id].stopped = TRUE,
                       ![id].fadeStart = baseTime,
                       ![id].fadeEnd = baseTime + FADE_OUT_MS,
                       ![id].stopAt = baseTime + FADE_OUT_MS + STOP_GUARD_MS]

\* stopVoice: no-op on a voice already stopped; otherwise mark it stopped,
\* schedule the fade (cancelScheduledValues, setValueAtTime at fadeStart,
\* linearRampToValueAtTime(0) at fadeEnd) unless the automation raises, which
\* is caught, and schedule the hard stop source.stop(stopAt).
stopVoice(vs, id, t) ==
    IF vs[id].stopped THEN vs
    ELSE LET baseTime == stopBaseTime(t, vs[id].startTime)
         IN [vs EXCEPT ![id].stopped = TRUE,
                       ![id].fadeStart = IF vs[id].gainFaulty THEN @ ELSE baseTime,
                       ![id].fadeEnd = IF vs[id].gainFaulty THEN @
                                       ELSE baseTime + FADE_OUT_MS,
                       ![id].stopAt = baseTime + FADE_OUT_MS + STOP_GUARD_MS]

RECURSIVE stopAll(_, _, _)
stopAll(vs, ids, t) ==
    IF ids = <<>> THEN vs
    ELSE stopAll(stopVoice(vs, Head(ids), t), Tail(ids), t)

\* Step 2: a hihat pad stops every active hihat voice and keeps the others.
chokeGroupOf(pad) == IF pad.type = "hihat" THEN "hihat" ELSE "null"

\* Faulty variant of step 2: the stopped hihat voices stay in the active set.
chokeRemainingAll(av, vs, group) == av

chokeRemaining(av, vs, group) ==
    IF group = "hihat"
    THEN SelectSeq(av, LAMBDA id : vs[id].chokeGroup # "hihat")
    ELSE av

chokeStopped(av, vs, group, t) ==
    IF group = "hihat"
    THEN stopAll(vs, SelectSeq(av, LAMBDA id : vs[id].chokeGroup = "hihat"), t)
    ELSE vs

\* Math.max(1, Math.floor(engine.config.maxVoices)) on an integer setting.
effectiveMaxVoices(cfg) == Max(1, cfg.maxVoices)

\* Faulty variants of step 3: the loop stops one voice late (> for >=), or it
\* takes the newest voice (pop) instead of the oldest (shift).
RECURSIVE evictLoopLate(_, _, _, _)
evictLoopLate(av, vs, maxVoices, t) ==
    IF Len(av) > maxVoices
    THEN evictLoopLate(Tail(av), stopVoice(vs, Head(av), t), maxVoices, t)
    ELSE [av |-> av, vs |-> vs]

RECURSIVE evictLoopNewest(_, _, _, _)
evictLoopNewest(av, vs, maxVoices, t) ==
    IF Len(av) >= maxVoices
    THEN evictLoopNewest(SubSeq(av, 1, Len(av) - 1), stopVoice(vs, av[Len(av)], t),
                         maxVoices, t)
    ELSE [av |-> av, vs |-> vs]

\* Faulty variant of step 3: the oldest voice is stopped and left in the set.
evictLoopKeeps(av, vs, maxVoices, t) ==
    IF Len(av) >= maxVoices
    THEN [av |-> av, vs |-> stopVoice(vs, Head(av), t)]
    ELSE [av |-> av, vs |-> vs]

\* Step 3: while (activeVoices.length >= maxVoices) shift and stop the oldest.
RECURSIVE evictLoop(_, _, _, _)
evictLoop(av, vs, maxVoices, t) ==
    IF Len(av) >= maxVoices
    THEN evictLoop(Tail(av), stopVoice(vs, Head(av), t), maxVoices, t)
    ELSE [av |-> av, vs |-> vs]

\* Faulty variant of the window: the newest entry is dropped (pop) instead
\* of the oldest (shift).
recordLatencyDropNewest(window, metrics) ==
    LET pushed == Append(window, metrics)
    IN IF Len(pushed) > LATENCY_WINDOW THEN SubSeq(pushed, 1, Len(pushed) - 1) ELSE pushed

\* The latency window: push, then shift once when longer than 100.
recordLatency(window, metrics) ==
    LET pushed == Append(window, metrics)
    IN IF Len(pushed) > LATENCY_WINDOW THEN Tail(pushed) ELSE pushed

-----------------------------------------------------------------------------
(* engine.ts: triggerDrum *)

padOf(drumId) == CHOOSE p \in DRUM_PADS : p.id = drumId

\* getTrackInputNode: the track's input node, or null when there is no track.
hasTrackInputNode(trackId) == trackId \in mixerTracks

\* SampleLoader.getSample on the loader the engine holds.
getSample(path) == sampleLoader = loader.id /\ path \in loader.samples

\* Faulty variant: the velocity is used as it is.
initialGainUnclamped(velocity) == velocity

\* Line 244: Math.max(0, Math.min(1.5, velocity)), in hundredths.
initialGain(velocity) == Max(0, Min(MaxInitialGain, velocity))

\* Faulty variant: the offset is added without the Math.max(0, ...).
scheduledTimeUnclamped(t, cfg) == t + cfg.preTriggerOffset

\* Lines 228-229: audioTime = ctx.currentTime + Math.max(0, offset), where
\* offset = preTriggerOffset / 1000 s, that is preTriggerOffset on the
\* audio clock held in ms.
scheduledTime(t, cfg) == t + Max(0, cfg.preTriggerOffset)

\* The ActiveVoice object built for an accepted trigger, with the state of
\* its nodes: the gain set from the velocity, both nodes connected, no fade
\* and no hard stop scheduled.  gainFaulty tells whether the automation
\* calls on this voice's gain will raise when the voice is force-stopped.
newVoice(drumId, pad, t, cfg, velocity, gainFaulty) ==
    LET audioTime == scheduledTime(t, cfg)
    IN [id |-> nextVoiceId, drumId |-> drumId, chokeGroup |-> chokeGroupOf(pad),
        startTime |-> audioTime, endTime |-> audioTime + Duration(pad.samplePath),
        ended |-> FALSE, stopped |-> FALSE, stopAt |-> -1,
        gain |-> initialGain(velocity), gainFaulty |-> gainFaulty,
        connected |-> TRUE, fadeStart |-> -1, fadeEnd |-> -1]

\* Line 250, gainNode.connect(trackInput): connect raises InvalidAccessError
\* when the two nodes belong to different AudioContexts.  The voice's nodes
\* are created on engine.ctx, the track's on the mixer's context.
connectThrows == mixerCtx # ctx

\* Faulty variant: the sample buffer is not checked.
triggerRejectedEarlyNoBuffer(drumId) ==
    \/ ~isInitialized \/ ctx = 0 \/ sampleLoader = 0
    \/ drumId \notin PadIds

\* A call that returns false before touching anything (lines 150-170).
triggerRejectedEarly(drumId) ==
    \/ ~isInitialized \/ ctx = 0 \/ sampleLoader = 0
    \/ drumId \notin PadIds
    \/ ~getSample(padOf(drumId).samplePath)

\* triggerDrum(drumId, velocity, callback); elapsed is the wall-clock time the
\* call takes between its two performance.now() readings, perfCap the wall-clock
\* time after which the model accepts no trigger.
triggerDrumWith(drumId, velocity, hasCallback, elapsed, perfCap, gainFaulty) ==
    /\ IF triggerRejectedEarly(drumId)
       THEN /\ lastCall' = Call("triggerDrum", drumId, FALSE, hasCallback, FALSE, "", <<velocity>>)
            /\ UNCHANGED <<engineVars, mixerVars>>
       ELSE LET pad == padOf(drumId)
                pruned == pruneVoices(activeVoices, voices, now)
                group == chokeGroupOf(pad)
                chokedVs == chokeStopped(pruned, voices, group, now)
                remaining == chokeRemaining(pruned, voices, group)
                evicted == evictLoop(remaining, chokedVs,
                                     effectiveMaxVoices(config), now)
            IN IF ~hasTrackInputNode(drumId)
               THEN /\ activeVoices' = evicted.av
                    /\ voices' = evicted.vs
                    /\ lastCall' = Call("triggerDrum", drumId, FALSE, hasCallback, FALSE, "", <<velocity>>)
                    /\ UNCHANGED <<isInitialized, jamOutputGain, ctx, ctxState, now, ctxCount,
                                   sampleLoader, loader, loaderCount, config,
                                   latencyMetrics, nextVoiceId, perfNow, initCalls, lastInit, loadBatch, fetching, recorded, mixerVars>>
               ELSE IF connectThrows
               THEN /\ activeVoices' = evicted.av
                    /\ voices' = evicted.vs
                    /\ lastCall' = Call("triggerDrum", drumId, FALSE, hasCallback, TRUE, "", <<velocity>>)
                    /\ UNCHANGED <<isInitialized, jamOutputGain, ctx, ctxState, now, ctxCount,
                                   sampleLoader, loader, loaderCount, config,
                                   latencyMetrics, nextVoiceId, perfNow, initCalls,
                                   lastInit, loadBatch, fetching, recorded, mixerVars>>
               ELSE LET voice == newVoice(drumId, pad, now, config, velocity, gainFaulty)
                        metrics == [triggerTime |-> perfNow,
                                    audioTime |-> perfNow + elapsed,
                                    latency |-> elapsed]
                    IN /\ perfNow + elapsed <= perfCap
                       /\ voices' = Append(evicted.vs, voice)
                       /\ activeVoices' = Append(evicted.av, voice.id)
                       /\ nextVoiceId' = nextVoiceId + 1
                       /\ perfNow' = perfNow + elapsed
                       /\ IF hasCallback
                          THEN /\ latencyMetrics' = recordLatency(latencyMetrics, metrics)
                               /\ recorded' = Append(recorded, metrics)
                          ELSE UNCHANGED <<latencyMetrics, recorded>>
                       /\ lastCall' = Call("triggerDrum", drumId, TRUE, hasCallback, FALSE, "", <<velocity>>)
                       /\ UNCHANGED <<isInitialized, jamOutputGain, ctx, ctxState, now, ctxCount,
                                      sampleLoader, loader, loaderCount, config,
                                      initCalls, lastInit, loadBatch, fetching, mixerVars>>

\* triggerDrum(drumId, undefined, callback): the velocity defaults to 1.0.
triggerDrum(drumId, hasCallback, elapsed, perfCap) ==
    triggerDrumWith(drumId, DefaultVelocity, hasCallback, elapsed, perfCap, FALSE)

\* source.onended of a voice: fires once playback has finished, naturally at
\* endTime or at the hard stop scheduled by stopVoice; it marks the voice
\* ended and disconnects its two nodes.
onended(id) ==
    /\ id \in 1..Len(voices)
    /\ ~voices[id].ended
    /\ \/ now >= voices[id].endTime
       \/ voices[id].stopAt >= 0 /\ now >= voices[id].stopAt
    /\ voices' = [voices EXCEPT ![id].ended = TRUE, ![id].connected = FALSE]
    /\ lastCall' = NoCall
    /\ UNCHANGED <<isInitialized, jamOutputGain, ctx, ctxState, now, ctxCount, sampleLoader,
                   loader, loaderCount, config, latencyMetrics, activeVoices,
                   nextVoiceId, perfNow, initCalls, lastInit, loadBatch, fetching, recorded, mixerVars>>

\* The audio thread advances currentTime of a running context.
tick(maxTicks) ==
    /\ ctx # 0 /\ ctxState = "running"
    /\ now + TickMs <= maxTicks * TickMs
    /\ now' = now + TickMs
    /\ lastCall' = NoCall
    /\ UNCHANGED <<isInitialized, jamOutputGain, ctx, ctxState, ctxCount, sampleLoader, loader,
                   loaderCount, config, latencyMetrics, activeVoices, voices,
                   nextVoiceId, perfNow, initCalls, lastInit, loadBatch, fetching, recorded, mixerVars>>

-----------------------------------------------------------------------------
(* mixer.ts: initialization, track mutators, cleanup *)

\* Track fader volumes a caller sets, in tenths.
Volumes == {0, 5, 8}

\* initTrackNodes: one strip per pad, fader at 0.8, not muted, not soloed.
initialTrackState ==
    [id \in PadIds |-> [volume |-> DefaultTrackVolume, muted |-> FALSE, soloed |-> FALSE]]

initialTrackGain == [id \in PadIds |-> DefaultTrackVolume]

\* DEFAULT_RETURNS: the volume of each return, in tenths; initReturnTracks
\* names them return-0 .. return-5.
DEFAULT_RETURNS == <<7, 5, 4, 3, 6, 4>>

ReturnIds == {"return-0", "return-1", "return-2", "return-3", "return-4", "return-5"}

returnIndex(id) ==
    CASE id = "return-0" -> 1 [] id = "return-1" -> 2 [] id = "return-2" -> 3
      [] id = "return-3" -> 4 [] id = "return-4" -> 5 [] id = "return-5" -> 6

initialReturnState ==
    [id \in ReturnIds |-> [volume |-> DEFAULT_RETURNS[returnIndex(id)], muted |-> FALSE]]

initialReturnGain == [id \in ReturnIds |-> DEFAULT_RETURNS[returnIndex(id)]]

\* DEFAULT_MASTER_BUS: volume in hundredths, EQ gains in dB, midFreq in Hz,
\* compressor attack and release in ms.
DefaultEq == [lowGain |-> 0, midGain |-> 0, highGain |-> 0, midFreq |-> 1000]

DefaultCompressor ==
    [threshold |-> -18, ratio |-> 4, attack |-> 5, release |-> 100,
     makeupGain |-> 0, enabled |-> TRUE]

\* { ...DEFAULT_MASTER_BUS } without its eq field, which is not copied: the
\* copy refers to the object DEFAULT_MASTER_BUS.eq itself (defaultEq).
DefaultMasterState ==
    [volume |-> DefaultMasterVolume, compressor |-> DefaultCompressor, vuMeter |-> 0]

NoMaster ==
    [ctx |-> 0, volume |-> 0, eqLow |-> 0, eqMid |-> 0, eqHigh |-> 0, midFreq |-> 0,
     threshold |-> 0, ratio |-> 0, attack |-> 0, release |-> 0]

\* attack / 1000, release / 1000: milliseconds to seconds.  The compressor
\* node's times are held in microseconds, so a second is 1000000.
msToSeconds(ms) == ms * 1000

\* initMasterBus: the nodes of the master chain on context c, at their
\* initial values (compressor attack 0.005 s and release 0.1 s).
initialMaster(c) ==
    [ctx |-> c, volume |-> DefaultMasterVolume, eqLow |-> 0, eqMid |-> 0, eqHigh |-> 0,
     midFreq |-> 1000, threshold |-> -18, ratio |-> 4, attack |-> 5000,
     release |-> 100000]

\* requestAnimationFrame: a handle no pending request has.
newFrame(pending) == CHOOSE n \in 1..(Cardinality(pending) + 1) :
                        n \notin pending /\ \A m \in 1..(n - 1) : m \in pending

\* The audio graph.  A node is <<owner kind, owner id, part, send target>>;
\* a connection is a pair <<from, to>> made by a connect call.
Destination == <<"destination", "", "", "">>
masterNode(part) == <<"master", "", part, "">>
returnNode(id, part) == <<"return", id, part, "">>
trackNode(id, part) == <<"track", id, part, "">>
sendNode(id, returnId) == <<"track", id, "sendGain", returnId>>

\* a.connect(b), b.connect(c), ... along a sequence of nodes.
chainEdges(nodes) == { <<nodes[i], nodes[i + 1]>> : i \in 1..(Len(nodes) - 1) }

\* initMasterBus, lines 165-172: the master chain, in connection order.
MasterChain ==
    <<"input", "eqLow", "eqMid", "eqHigh", "compressor", "limiter", "volume", "analyser">>

initMasterBusEdges ==
    chainEdges([i \in 1..Len(MasterChain) |-> masterNode(MasterChain[i])]
               \o <<Destination>>)

\* DEFAULT_RETURNS: the effect type of each return.
ReturnTypes == <<"reverb", "delay", "chorus", "distortion", "reverb", "delay">>

\* createEffectNodes: the nodes returned for an effect type, in order.
createEffectNodes(type) ==
    CASE type = "reverb"     -> <<"delay1", "feedback1", "delay2", "feedback2">>
      [] type = "delay"      -> <<"delay", "wetMix">>
      [] type = "chorus"     -> <<"delay">>
      [] type = "distortion" -> <<"waveshaper", "tone", "makeupGain">>

\* createEffectNodes: the connections it makes itself (the feedback loop of
\* a delay, the LFO of a chorus driving the delay time).
effectInnerEdges(id, type) ==
    CASE type = "delay"  -> { <<returnNode(id, "delay"), returnNode(id, "feedback")>>,
                              <<returnNode(id, "feedback"), returnNode(id, "delay")>> }
      [] type = "chorus" -> { <<returnNode(id, "lfo"), returnNode(id, "lfoGain")>>,
                              <<returnNode(id, "lfoGain"), returnNode(id, "delay")>> }
      [] OTHER           -> {}

\* initReturnTracks, lines 236-245: input -> effects -> volume -> analyser
\* -> master input.
initReturnTrackEdges(id) ==
    LET type == ReturnTypes[returnIndex(id)]
        effects == createEffectNodes(type)
    IN chainEdges(<<returnNode(id, "input")>>
                  \o [i \in 1..Len(effects) |-> returnNode(id, effects[i])]
                  \o <<returnNode(id, "volume"), returnNode(id, "analyser"),
                       masterNode("input")>>)
       \cup effectInnerEdges(id, type)

\* Faulty variant: the strip's analyser is connected to the destination.
initTrackNodeEdgesBypass(id, returns) ==
    chainEdges(<<trackNode(id, "inputGain"), trackNode(id, "panner"),
                 trackNode(id, "volume"), trackNode(id, "analyser"), Destination>>)
    \cup { <<sendNode(id, r), returnNode(r, "input")>> : r \in returns }
    \cup { <<trackNode(id, "volume"), sendNode(id, r)>> : r \in returns }

\* initTrackNodes, lines 390-418: inputGain -> panner -> volume -> analyser
\* -> master input, one send gain per return fed from the volume node
\* (post-fader) and connected to the return's input.
initTrackNodeEdges(id, returns) ==
    chainEdges(<<trackNode(id, "inputGain"), trackNode(id, "panner"),
                 trackNode(id, "volume"), trackNode(id, "analyser"),
                 masterNode("input")>>)
    \cup { <<sendNode(id, r), returnNode(r, "input")>> : r \in returns }
    \cup { <<trackNode(id, "volume"), sendNode(id, r)>> : r \in returns }

\* The connections of the nodes the mixer holds: made when the mixer is
\* built, removed by the disconnect calls of cleanupMixerEngine.
connections ==
    (IF master.ctx # 0 THEN initMasterBusEdges ELSE {})
    \cup UNION { initReturnTrackEdges(r) : r \in mixerReturns }
    \cup UNION { initTrackNodeEdges(t, mixerReturns) : t \in mixerTracks }

\* A MixerState value as getMixerState builds it (lines 652-657): its two
\* Maps are new, so their keys are its own, but the values are the mixer's
\* TrackState and ReturnState objects; master is a new object whose eq
\* refers to the mixer's eq object.  While live is TRUE the objects are the
\* ones the mixer holds now and are read through trackState and
\* returnState; tracks and returns hold their contents once cleanup has
\* replaced the mixer's state (lines 790-800) and nothing writes them
\* but the holder of the value.
NoSnapshot == [taken |-> FALSE]

snapshotOf(ts, rs, ms, solo) ==
    [taken |-> TRUE, live |-> TRUE,
     trackKeys |-> DOMAIN ts, returnKeys |-> DOMAIN rs,
     tracks |-> <<>>, returns |-> <<>>,
     volume |-> ms.volume, compressor |-> ms.compressor, vuMeter |-> ms.vuMeter,
     soloActive |-> solo]

\* The objects a live value shares with the mixer are the mixer's no more.
detach(s) ==
    IF ~s.taken \/ ~s.live THEN s
    ELSE [s EXCEPT !.live = FALSE,
                   !.tracks = [id \in s.trackKeys |-> trackState[id]],
                   !.returns = [id \in s.returnKeys |-> returnState[id]]]

\* What reading the value s gives now.
readSnapshot(s, ts, rs, eq) ==
    [tracks |-> IF s.live THEN [id \in s.trackKeys |-> ts[id]] ELSE s.tracks,
     returns |-> IF s.live THEN [id \in s.returnKeys |-> rs[id]] ELSE s.returns,
     master |-> [volume |-> s.volume, eq |-> eq, compressor |-> s.compressor,
                 vuMeter |-> s.vuMeter],
     soloActive |-> s.soloActive]

\* Lines 86-107 of initMixerEngine: master bus, returns, tracks, VU loop.
buildMixerNodes(c, destination) ==
    /\ mixerCtx' = c
    /\ mixerDest' = destination
    /\ master' = initialMaster(c)
    /\ mixerReturns' = ReturnIds
    /\ returnState' = initialReturnState
    /\ returnGain' = initialReturnGain
    /\ mixerTracks' = PadIds
    /\ trackState' = initialTrackState
    /\ trackGain' = initialTrackGain
    /\ animationFrame' = newFrame(pendingFrames)
    /\ pendingFrames' = pendingFrames \cup {newFrame(pendingFrames)}
    /\ mixerInit' = TRUE
    /\ UNCHANGED <<soloActive, masterState, defaultEq>>

buildMixer(c, destination) == buildMixerNodes(c, destination) /\ UNCHANGED <<stateRef, jam>>

\* Faulty variant: the mixer is rebuilt on every call.
initMixerEngineBodyAlways(c, destination) == buildMixer(c, destination)

\* The body of initMixerEngine(ctx, destination): returns at once when the
\* mixer is initialized, otherwise builds master, returns and tracks.
initMixerEngineBody(c, destination) ==
    IF mixerInit
    THEN UNCHANGED mixerVars
    ELSE buildMixer(c, destination)

\* Faulty variant: the master nodes are disconnected without the null test.
cleanupHasMasterAlways == TRUE

\* Line 766: if (mixerEngine.master)
cleanupHasMaster == master.ctx # 0

\* cleanupMixerEngine raises when it reaches into a master that is null.
cleanupThrows == cleanupHasMaster /\ master.ctx = 0

\* The body of cleanupMixerEngine: cancel the pending VU frame, disconnect,
\* and replace the singleton by an uninitialized one whose master mirror is
\* a shallow copy of DEFAULT_MASTER_BUS.
cleanupMixerEngineBody ==
    /\ pendingFrames' = IF animationFrame # 0
                         THEN pendingFrames \ {animationFrame}
                         ELSE pendingFrames
    /\ IF cleanupThrows
       THEN UNCHANGED <<mixerCtx, mixerDest, stateRef, jam, mixerInit, mixerTracks, trackState, trackGain,
                        soloActive, mixerReturns, returnState, returnGain, master,
                        masterState, defaultEq, animationFrame>>
       ELSE /\ mixerCtx' = 0
            /\ mixerDest' = NoNode
            /\ mixerTracks' = {}
            /\ trackState' = <<>>
            /\ trackGain' = <<>>
            /\ mixerReturns' = {}
            /\ returnState' = <<>>
            /\ returnGain' = <<>>
            /\ master' = NoMaster
            /\ masterState' = DefaultMasterState
            /\ soloActive' = FALSE
            /\ mixerInit' = FALSE
            /\ animationFrame' = 0
            /\ stateRef' = detach(stateRef)
            /\ UNCHANGED jam
            /\ UNCHANGED defaultEq

\* getMixerState(): copies of the two maps, a shallow copy of the master
\* mirror (its eq read through the reference), and the solo flag.
getMixerState ==
    [tracks |-> trackState, returns |-> returnState,
     master |-> [volume |-> masterState.volume, eq |-> defaultEq,
                 compressor |-> masterState.compressor,
                 vuMeter |-> masterState.vuMeter],
     soloActive |-> soloActive]

\* Faulty variant: a soloed track elsewhere does not silence this one.
calculateEffectiveVolumeNoSolo(ts, solo, trackId, baseVolume) ==
    IF trackId \notin DOMAIN ts THEN 0
    ELSE IF ts[trackId].muted THEN 0
    ELSE baseVolume

\* calculateEffectiveVolume(trackId, baseVolume) on state ts, solo flag solo.
calculateEffectiveVolume(ts, solo, trackId, baseVolume) ==
    IF trackId \notin DOMAIN ts THEN 0
    ELSE IF ts[trackId].muted THEN 0
    ELSE IF solo THEN (IF ts[trackId].soloed THEN baseVolume ELSE 0)
    ELSE baseVolume

\* setTrackVolume(trackId, volume): the fader targets after the call ...
setTrackVolumeGain(ts, tg, solo, trackId, volume) ==
    IF trackId \notin DOMAIN tg \/ trackId \notin DOMAIN ts \/ mixerCtx = 0
    THEN tg
    ELSE [tg EXCEPT ![trackId] = calculateEffectiveVolume(ts, solo, trackId, volume)]

\* ... and the mirror after the call.
setTrackVolumeState(ts, tg, trackId, volume) ==
    IF trackId \notin DOMAIN tg \/ trackId \notin DOMAIN ts \/ mixerCtx = 0
    THEN ts
    ELSE [ts EXCEPT ![trackId].volume = volume]

\* Faulty variant of the solo flag: every track soloed (every for some).
allSoloed(ts) == \A id \in DOMAIN ts : ts[id].soloed

\* Array.from(state.tracks.values()).some(t => t.soloed)
anySoloed(ts) == \E id \in DOMAIN ts : ts[id].soloed

mixerCall(op, id, ret) == Call(op, id, ret, FALSE, FALSE, "", <<>>)

setTrackVolume(trackId, volume) ==
    /\ trackGain' = setTrackVolumeGain(trackState, trackGain, soloActive, trackId, volume)
    /\ trackState' = setTrackVolumeState(trackState, trackGain, trackId, volume)
    /\ lastCall' = mixerCall("setTrackVolume", trackId, FALSE)
    /\ UNCHANGED <<engineVars, mixerCtx, mixerDest, stateRef, jam, mixerInit, mixerTracks, soloActive, masterVars>>

toggleTrackMute(trackId) ==
    /\ IF trackId \notin DOMAIN trackState
       THEN /\ lastCall' = mixerCall("toggleTrackMute", trackId, FALSE)
            /\ UNCHANGED <<trackState, trackGain>>
       ELSE LET ts1 == [trackState EXCEPT ![trackId].muted = ~@]
            IN /\ trackGain' = setTrackVolumeGain(ts1, trackGain, soloActive,
                                                  trackId, ts1[trackId].volume)
               /\ trackState' = setTrackVolumeState(ts1, trackGain, trackId,
                                                    ts1[trackId].volume)
               /\ lastCall' = mixerCall("toggleTrackMute", trackId, ts1[trackId].muted)
    /\ UNCHANGED <<engineVars, mixerCtx, mixerDest, stateRef, jam, mixerInit, mixerTracks, soloActive, masterVars>>

\* Faulty variant of the forEach: no track is recomputed.
recalcNoTracks(ts, tg, solo, ids) == tg

\* toggleTrackSolo's forEach: setTrackVolume(id, t.volume) for every track.
RECURSIVE recalcAllTracks(_, _, _, _)
recalcAllTracks(ts, tg, solo, ids) ==
    IF ids = {} THEN tg
    ELSE LET id == CHOOSE x \in ids : TRUE
         IN recalcAllTracks(ts, setTrackVolumeGain(ts, tg, solo, id, ts[id].volume),
                            solo, ids \ {id})

\* What toggleTrackSolo(trackId) makes of the mirror ts, the fader targets
\* tg and the solo flag: the three after the call, and the value returned.
toggleTrackSoloResult(ts, tg, solo, trackId) ==
    IF trackId \notin DOMAIN ts
    THEN [ts |-> ts, tg |-> tg, solo |-> solo, ret |-> FALSE]
    ELSE LET ts1 == [ts EXCEPT ![trackId].soloed = ~@]
             solo1 == anySoloed(ts1)
         IN [ts |-> ts1, tg |-> recalcAllTracks(ts1, tg, solo1, DOMAIN ts1),
             solo |-> solo1, ret |-> ts1[trackId].soloed]

toggleTrackSolo(trackId) ==
    LET r == toggleTrackSoloResult(trackState, trackGain, soloActive, trackId)
    IN /\ soloActive' = r.solo
       /\ trackGain' = r.tg
       /\ trackState' = r.ts
       /\ lastCall' = mixerCall("toggleTrackSolo", trackId, r.ret)
       /\ UNCHANGED <<engineVars, mixerCtx, mixerDest, stateRef, jam, mixerInit, mixerTracks, masterVars>>

\* setReturnVolume(returnId, volume): the volume node's target and the
\* mirror's volume are both set to the new value, muted or not.
setReturnVolumeGain(rs, rg, returnId, volume) ==
    [rg EXCEPT ![returnId] = volume]

setReturnVolume(returnId, volume) ==
    /\ IF returnId \notin mixerReturns \/ returnId \notin DOMAIN returnState \/ mixerCtx = 0
       THEN UNCHANGED <<returnState, returnGain>>
       ELSE /\ returnGain' = setReturnVolumeGain(returnState, returnGain, returnId, volume)
            /\ returnState' = [returnState EXCEPT ![returnId].volume = volume]
    /\ lastCall' = Call("setReturnVolume", returnId, FALSE, FALSE, FALSE, "", <<volume>>)
    /\ UNCHANGED <<engineVars, mixerCtx, mixerDest, stateRef, jam, mixerInit, mixerTracks, trackState, trackGain,
                   soloActive, mixerReturns, master, masterState, defaultEq,
                   animationFrame, pendingFrames>>

\* toggleReturnMute(returnId)
toggleReturnMuteGain(rs, rg, returnId) ==
    [rg EXCEPT ![returnId] = IF rs[returnId].muted THEN 0 ELSE rs[returnId].volume]

toggleReturnMute(returnId) ==
    /\ IF returnId \notin mixerReturns \/ returnId \notin DOMAIN returnState \/ mixerCtx = 0
       THEN /\ UNCHANGED <<returnState, returnGain>>
            /\ lastCall' = mixerCall("toggleReturnMute", returnId, FALSE)
       ELSE LET rs1 == [returnState EXCEPT ![returnId].muted = ~@]
            IN /\ returnState' = rs1
               /\ returnGain' = toggleReturnMuteGain(rs1, returnGain, returnId)
               /\ lastCall' = mixerCall("toggleReturnMute", returnId, rs1[returnId].muted)
    /\ UNCHANGED <<engineVars, mixerCtx, mixerDest, stateRef, jam, mixerInit, mixerTracks, trackState, trackGain,
                   soloActive, mixerReturns, master, masterState, defaultEq,
                   animationFrame, pendingFrames>>

\* setMasterVolume(volume)
setMasterVolume(volume) ==
    /\ IF master.ctx = 0 \/ mixerCtx = 0
       THEN UNCHANGED <<master, masterState>>
       ELSE /\ master' = [master EXCEPT !.volume = volume]
            /\ masterState' = [masterState EXCEPT !.volume = volume]
    /\ lastCall' = Call("setMasterVolume", "", FALSE, FALSE, FALSE, "", <<volume>>)
    /\ UNCHANGED <<engineVars, mixerCtx, mixerDest, stateRef, jam, mixerInit, mixerTracks, trackState, trackGain,
                   soloActive, mixerReturns, returnState, returnGain, defaultEq,
                   animationFrame, pendingFrames>>

\* Faulty variant: the mid frequency is not written to the mirror.
setMasterEQMirrorNoFreq(eq, low, mid, high, hasMidFreq, midFreq) ==
    [eq EXCEPT !.lowGain = low, !.midGain = mid, !.highGain = high]

\* Lines 609-614: the writes of setMasterEQ to state.master.eq.
setMasterEQMirror(eq, low, mid, high, hasMidFreq, midFreq) ==
    [eq EXCEPT !.lowGain = low, !.midGain = mid, !.highGain = high,
               !.midFreq = IF hasMidFreq THEN midFreq ELSE @]

\* setMasterEQ(low, mid, high, midFreq?); hasMidFreq = the fourth argument
\* is not undefined.  The mirror written is the object state.master.eq
\* refers to.
setMasterEQ(low, mid, high, hasMidFreq, midFreq) ==
    /\ IF master.ctx = 0 \/ mixerCtx = 0
       THEN UNCHANGED <<master, defaultEq>>
       ELSE /\ master' = [master EXCEPT !.eqLow = low, !.eqMid = mid, !.eqHigh = high,
                                        !.midFreq = IF hasMidFreq THEN midFreq ELSE @]
            /\ defaultEq' = setMasterEQMirror(defaultEq, low, mid, high, hasMidFreq, midFreq)
    /\ lastCall' = Call("setMasterEQ", "", FALSE, FALSE, FALSE, "",
                        <<low, mid, high, IF hasMidFreq THEN <<midFreq>> ELSE <<>> >>)
    /\ UNCHANGED <<engineVars, mixerCtx, mixerDest, stateRef, jam, mixerInit, mixerTracks, trackState, trackGain,
                   soloActive, mixerReturns, returnState, returnGain, masterState,
                   animationFrame, pendingFrames>>

\* setMasterCompressor(threshold, ratio, attack, release, enabled): the node
\* is written only when enabled, the mirror always.
setMasterCompressor(threshold, ratio, attack, release, enabled) ==
    /\ IF master.ctx = 0 \/ mixerCtx = 0
       THEN UNCHANGED <<master, masterState>>
       ELSE /\ master' = IF enabled
                         THEN [master EXCEPT !.threshold = threshold, !.ratio = ratio,
                                             !.attack = msToSeconds(attack),
                                             !.release = msToSeconds(release)]
                         ELSE master
            /\ masterState' =
                 [masterState EXCEPT !.compressor =
                    [@ EXCEPT !.threshold = threshold, !.ratio = ratio,
                              !.attack = attack, !.release = release,
                              !.enabled = enabled]]
    /\ lastCall' = Call("setMasterCompressor", "", FALSE, FALSE, FALSE, "",
                        <<threshold, ratio, attack, release, enabled>>)
    /\ UNCHANGED <<engineVars, mixerCtx, mixerDest, stateRef, jam, mixerInit, mixerTracks, trackState, trackGain,
                   soloActive, mixerReturns, returnState, returnGain, defaultEq,
                   animationFrame, pendingFrames>>

\* The update callback of startVUMeterUpdates runs for frame id: it writes
\* the master meter (level is what the analyser reads; the track and return
\* meters are written the same way and read by no operation here) and
\* requests the next frame.
vuFrame(id, level) ==
    /\ id \in pendingFrames
    /\ masterState' = IF master.ctx # 0
                       THEN [masterState EXCEPT !.vuMeter = level]
                       ELSE masterState
    /\ animationFrame' = newFrame(pendingFrames \ {id})
    /\ pendingFrames' = (pendingFrames \ {id}) \cup {newFrame(pendingFrames \ {id})}
    /\ lastCall' = NoCall
    /\ UNCHANGED <<engineVars, mixerCtx, mixerDest, stateRef, jam, mixerInit, mixerTracks, trackState, trackGain,
                   soloActive, mixerReturns, returnState, returnGain, master, defaultEq>>

\* getAudioDestination(): engine.jamOutputGain || engine.ctx?.destination || null
getAudioDestination ==
    IF jamOutputGain # NoNode THEN jamOutputGain
    ELSE IF ctx # 0 THEN ctxDestination(ctx) ELSE NoNode

\* initMixerEngine called directly (useMixer) with the engine's context and
\* the node getAudioDestination gives.
initMixerEngine ==
    /\ ctx # 0
    /\ initMixerEngineBody(ctx, getAudioDestination)
    /\ lastCall' = mixerCall("initMixerEngine", "", TRUE)
    /\ UNCHANGED engineVars

cleanupMixerEngine ==
    /\ cleanupMixerEngineBody
    /\ lastCall' = Call("cleanupMixerEngine", "", FALSE, FALSE, cleanupThrows, "", <<>>)
    /\ UNCHANGED engineVars

-----------------------------------------------------------------------------
(* DrumPad.tsx: the JamAlong component.  perfNow is performance.now() in   *)
(* milliseconds here.  A pending timer is [id, due, inner]: a callback    *)
(* window.setTimeout registered, which the browser runs once, at or after  *)
(* its due time, unless clearTimeout removes it first.                     *)

\* clampInt(n, min, max) of a quotient num / den >= 0: Math.round rounds
\* halves up.
clampInt(num, den, lo, hi) == Max(lo, Min(hi, (2 * num + den) \div (2 * den)))

DEFAULT_MIX == [youtubeVolume |-> 70, duckEnabled |-> TRUE]

\* Lines 234-239 and 304-318; lastApplied -1 is null, duckTimer 0 is null.
\* lastDuckAt and duckedFrom are observers: when the latest duck() that
\* passed its guards ran, and the base volume it found.
InitialJam ==
    [mix |-> DEFAULT_MIX, playerReady |-> FALSE, playerVolume |-> 100,
     baseVolume |-> DEFAULT_MIX.youtubeVolume, lastApplied |-> -1,
     duckUntilMs |-> 0, duckTimer |-> 0, timers |-> {},
     lastDuckAt |-> -1, duckedFrom |-> -1]

duckMultiplierPercent == 65
restoreMs == 180

\* applyVolume(volume), lines 320-332.
applyVolume(j, volume) ==
    IF ~j.playerReady THEN j
    ELSE LET v == clampInt(volume, 1, 0, 100)
         IN IF j.lastApplied = v THEN j
            ELSE [j EXCEPT !.lastApplied = v, !.playerVolume = v]

\* restoreVolumeIfNeeded(), lines 334-337.
restoreVolumeIfNeeded(j) == IF ~j.playerReady THEN j ELSE applyVolume(j, j.baseVolume)

\* window.setTimeout(callback, delay): the new timer, with the smallest id
\* not in use.
newTimerId(timers) ==
    CHOOSE n \in 1..(Cardinality(timers) + 1) : \A t \in timers : t.id # n

setTimeout(timers, inner, delay, t) ==
    timers \cup {[id |-> newTimerId(timers), due |-> t + delay, inner |-> inner]}

\* Faulty variant: the pending timer is left to run.
clearTimeoutKeeps(timers, id) == timers

\* window.clearTimeout(id)
clearTimeout(timers, id) == { t \in timers : t.id # id }

jamCall(op, changed) == Call(op, "", changed, FALSE, FALSE, "", <<>>)

jamUnchanged ==
    UNCHANGED <<isInitialized, jamOutputGain, ctx, ctxState, now, ctxCount, sampleLoader, loader,
                loaderCount, config, latencyMetrics, activeVoices, voices, nextVoiceId,
                initCalls, lastInit, loadBatch, fetching, recorded,
                mixerCtx, mixerDest, stateRef, mixerInit, mixerTracks, trackState, trackGain,
                soloActive, masterVars>>

\* duck(), lines 339-367, up to the registration of the timer.  It runs
\* only while the clock leaves room for the restore (maxNow).
duck(maxNow) ==
    /\ perfNow + restoreMs <= maxNow
    /\ IF ~jam.mix.duckEnabled \/ ~jam.playerReady
       THEN /\ jam' = jam
            /\ lastCall' = jamCall("duck", FALSE)
       ELSE LET j1 == [jam EXCEPT !.duckUntilMs = Max(@, perfNow + restoreMs),
                                  !.lastDuckAt = perfNow, !.duckedFrom = jam.baseVolume]
                j2 == applyVolume(j1, clampInt(j1.baseVolume * duckMultiplierPercent, 100,
                                               0, 100))
                cleared == IF j2.duckTimer # 0
                           THEN clearTimeout(j2.timers, j2.duckTimer)
                           ELSE j2.timers
            IN /\ jam' = [j2 EXCEPT !.timers = setTimeout(cleared, FALSE, restoreMs, perfNow),
                                    !.duckTimer = newTimerId(cleared)]
               /\ lastCall' = jamCall("duck", TRUE)
    /\ UNCHANGED perfNow
    /\ jamUnchanged

\* A timer callback runs.  Lines 355-366 for the timer duck() registered:
\* it registers a second timer for the time that remains, or restores;
\* lines 359-362 for that second timer.
duckTimerFires(t) ==
    /\ t \in jam.timers
    /\ perfNow >= t.due
    /\ LET j1 == [jam EXCEPT !.timers = @ \ {t}, !.duckTimer = 0]
           remaining == j1.duckUntilMs - perfNow
           j2 == IF ~t.inner /\ remaining > 0
                 THEN [j1 EXCEPT !.timers = setTimeout(j1.timers, TRUE, remaining, perfNow),
                                 !.duckTimer = newTimerId(j1.timers)]
                 ELSE restoreVolumeIfNeeded(j1)
       IN /\ jam' = j2
          /\ lastCall' = jamCall("duckTimer", j2.playerVolume # jam.playerVolume)
    /\ UNCHANGED perfNow
    /\ jamUnchanged

\* The volume slider, line 641, and the effects its setMix brings: lines
\* 413-416 (baseVolumeRef follows the mix) and 425-434 (the volume is
\* applied unless a duck is in force).
setYoutubeVolume(volume) ==
    /\ LET v == clampInt(volume, 1, 0, 100)
           j1 == [jam EXCEPT !.mix.youtubeVolume = v, !.baseVolume = v]
           j2 == IF j1.playerReady /\ ~(perfNow < j1.duckUntilMs)
                 THEN applyVolume(j1, v)
                 ELSE j1
       IN /\ jam' = j2
          /\ lastCall' = jamCall("setYoutubeVolume", j2.playerVolume # jam.playerVolume)
    /\ UNCHANGED perfNow
    /\ jamUnchanged

\* The DUCK button, line 675.
toggleDuckEnabled ==
    /\ jam' = [jam EXCEPT !.mix.duckEnabled = ~@]
    /\ lastCall' = jamCall("toggleDuckEnabled", FALSE)
    /\ UNCHANGED perfNow
    /\ jamUnchanged

\* The player's onReady, lines 460-464, and the volume effect that the
\* change of isPlayerReady brings.
onReady ==
    /\ ~jam.playerReady
    /\ LET j1 == applyVolume([jam EXCEPT !.playerReady = TRUE], jam.baseVolume)
           j2 == IF ~(perfNow < j1.duckUntilMs) THEN applyVolume(j1, j1.mix.youtubeVolume)
                 ELSE j1
       IN /\ jam' = j2
          /\ lastCall' = jamCall("onReady", j2.playerVolume # jam.playerVolume)
    /\ UNCHANGED perfNow
    /\ jamUnchanged

\* The clock advances by ms, up to maxNow.
jamClock(ms, maxNow) ==
    /\ perfNow + ms <= maxNow
    /\ perfNow' = perfNow + ms
    /\ lastCall' = NoCall
    /\ UNCHANGED jam
    /\ jamUnchanged

\* useAudioEngine.ts, useMixer.  The effect of lines 300-315, run with the
\* engine's context and destination: initMixerEngine, then the first
\* getMixerState into stateRef.current (isReady is true from then on).
useMixerInit ==
    /\ ctx # 0
    /\ IF mixerInit
       THEN /\ stateRef' = snapshotOf(trackState, returnState, masterState, soloActive)
            /\ UNCHANGED <<mixerCtx, mixerDest, jam, mixerInit, mixerTracks, trackState, trackGain,
                           soloActive, masterVars>>
       ELSE /\ buildMixerNodes(ctx, getAudioDestination)
            /\ stateRef' = snapshotOf(initialTrackState, initialReturnState, masterState,
                                      soloActive)
            /\ UNCHANGED jam
    /\ lastCall' = mixerCall("useMixerInit", "", TRUE)
    /\ UNCHANGED engineVars

\* The interval callback of lines 321-325, running once isReady is true.
useMixerInterval ==
    /\ stateRef.taken
    /\ stateRef' = snapshotOf(trackState, returnState, masterState, soloActive)
    /\ lastCall' = mixerCall("useMixerInterval", "", FALSE)
    /\ UNCHANGED <<engineVars, mixerCtx, mixerDest, jam, mixerInit, mixerTracks, trackState, trackGain,
                   soloActive, masterVars>>

\* handleSetTrackVolume(trackId, volume), lines 331-341: setTrackVolume,
\* then track.volume = volume on the object stateRef.current's Map gives.
handleSetTrackVolume(trackId, volume) ==
    LET ts1 == setTrackVolumeState(trackState, trackGain, trackId, volume)
        writes == stateRef.taken /\ trackId \in stateRef.trackKeys
    IN /\ trackGain' = setTrackVolumeGain(trackState, trackGain, soloActive, trackId, volume)
       /\ trackState' = IF writes /\ stateRef.live
                         THEN [ts1 EXCEPT ![trackId].volume = volume]
                         ELSE ts1
       /\ stateRef' = IF writes /\ ~stateRef.live
                       THEN [stateRef EXCEPT !.tracks[trackId].volume = volume]
                       ELSE stateRef
       /\ lastCall' = Call("handleSetTrackVolume", trackId, FALSE, FALSE, FALSE, "", <<volume>>)
       /\ UNCHANGED <<engineVars, mixerCtx, mixerDest, jam, mixerInit, mixerTracks, soloActive,
                      masterVars>>

\* handleSetMasterEQ(low, mid, high, midFreq?), lines 430-441: setMasterEQ,
\* then the same writes to stateRef.current.master.eq, the object the
\* mixer's own master mirror refers to.
handleSetMasterEQ(low, mid, high, hasMidFreq, midFreq) ==
    /\ master' = IF master.ctx = 0 \/ mixerCtx = 0
                  THEN master
                  ELSE [master EXCEPT !.eqLow = low, !.eqMid = mid, !.eqHigh = high,
                                      !.midFreq = IF hasMidFreq THEN midFreq ELSE @]
    /\ defaultEq' = IF (master.ctx # 0 /\ mixerCtx # 0) \/ stateRef.taken
                     THEN setMasterEQMirror(defaultEq, low, mid, high, hasMidFreq, midFreq)
                     ELSE defaultEq
    /\ lastCall' = Call("handleSetMasterEQ", "", FALSE, FALSE, FALSE, "",
                        <<low, mid, high, IF hasMidFreq THEN <<midFreq>> ELSE <<>> >>)
    /\ UNCHANGED <<engineVars, mixerCtx, mixerDest, stateRef, jam, mixerInit, mixerTracks, trackState,
                   trackGain, soloActive, mixerReturns, returnState, returnGain, masterState,
                   animationFrame, pendingFrames>>

-----------------------------------------------------------------------------
(* sample-loader.ts: the SampleLoader class, one loadSamples call followed  *)
(* entry by entry.  The samples map is the set of its own keys; it is a     *)
(* plain object, so a lookup of a key it does not own falls through to      *)
(* Object.prototype.                                                        *)

\* Keys every plain object inherits from Object.prototype (one is enough).
InheritedKeys == {"constructor"}

\* this.samples[id] || null: an own key gives the decoded buffer, an
\* inherited key gives the (truthy) prototype member, anything else null.
sampleOf(samples, id) ==
    IF id \in samples THEN "buffer"
    ELSE IF id \in InheritedKeys THEN "inherited"
    ELSE "null"

\* SampleLoader.getSample(id)
SampleLoader_getSample(id) == sampleOf(loader.samples, id)

\* SampleLoader.isReady()
isReady == loader.isLoaded

\* SampleLoader.getLoadedSampleIds(): Object.keys(this.samples)
getLoadedSampleIds == loader.samples

\* new SampleLoader(ctx)
newSampleLoader(c) ==
    /\ loader = NoLoader
    /\ ~loadBatch.started
    /\ loader' = [id |-> loaderCount + 1, ctx |-> c, samples |-> {}, isLoaded |-> FALSE]
    /\ loaderCount' = loaderCount + 1
    /\ lastCall' = Call("new SampleLoader", "", FALSE, FALSE, FALSE, "", <<>>)
    /\ UNCHANGED <<isInitialized, jamOutputGain, ctx, ctxState, now, ctxCount, sampleLoader, config,
                   latencyMetrics, activeVoices, voices, nextVoiceId, perfNow,
                   initCalls, lastInit, loadBatch, fetching, recorded, mixerVars>>

\* loadSamples(sampleUrls) up to its await: one loadSample call per entry
\* is started.  entries is the set of the batch's ids.
loadSamples(entries) ==
    /\ loader.id # 0
    /\ ~loadBatch.started
    /\ loadBatch' = [started |-> TRUE, entries |-> entries, pending |-> entries,
                     failed |-> {}, done |-> FALSE]
    /\ fetching' = startFetches(fetching, entries)
    /\ lastCall' = Call("loadSamples:start", "", FALSE, FALSE, FALSE, "", <<>>)
    /\ UNCHANGED <<engineObjects, loader, loaderCount, mixerVars>>

\* loadSample(url, id) finishes: ok = fetch and decode succeeded, and the
\* buffer is stored; otherwise the catch block returns null.
loadSample(id, ok) ==
    /\ id \in loadBatch.pending
    /\ loader' = IF ok THEN [loader EXCEPT !.samples = @ \cup {id}] ELSE loader
    /\ loadBatch' = [loadBatch EXCEPT !.pending = @ \ {id},
                                      !.failed = IF ok THEN @ ELSE @ \cup {id}]
    /\ fetching' = endFetches(fetching, {id})
    /\ lastCall' = Call("loadSample", id, ok, FALSE, FALSE, "", <<>>)
    /\ UNCHANGED <<engineObjects, loaderCount, mixerVars>>

\* loadSamples resumes after `await Promise.all(loadPromises)`: every
\* loadSample promise has resolved.
loadSamplesDone ==
    /\ loadBatch.started
    /\ ~loadBatch.done
    /\ loadBatch.pending = {}
    /\ loader' = [loader EXCEPT !.isLoaded = TRUE]
    /\ loadBatch' = [loadBatch EXCEPT !.done = TRUE]
    /\ lastCall' = Call("loadSamples", "", FALSE, FALSE, FALSE, "", <<>>)
    /\ UNCHANGED fetching
    /\ UNCHANGED <<engineObjects, loaderCount, mixerVars>>

-----------------------------------------------------------------------------
(* engine.ts: initAudioEngine, updateAudioConfig, cleanupAudioEngine *)

\* Settings updateAudioConfig is called with.
ConfigSet == [maxVoices : {1, 2}, preTriggerOffset : {0}]

engineCall(op, ret) == Call(op, "", ret, FALSE, FALSE, "", <<>>)

initCall(op, ret, by) == Call(op, "", ret, FALSE, FALSE, by, <<>>)

\* Faulty variant of line 67: the test of isInitialized is inverted.
alreadyInitializedInverted == ~isInitialized /\ ctxState = "running"

\* Line 67: engine.isInitialized && engine.ctx?.state === 'running'
alreadyInitialized == isInitialized /\ ctxState = "running"

\* isAudioEngineReady()
isAudioEngineReady == isInitialized /\ ctxState = "running"

\* A call suspended at an await: where (pc), the context it created, the
\* loader whose loadSamples it waits for, the operation that made the call,
\* whether its context was closed meanwhile, whether it is the latest
\* initAudioEngine call made, and whether cleanupAudioEngine has run since
\* the call was made.
suspendedCall(pc, c, l, by) ==
    [pc |-> pc, ctx |-> c, loader |-> l, by |-> by, closed |-> FALSE, latest |-> TRUE,
     cleaned |-> FALSE]

notLatest(calls) == [i \in 1..Len(calls) |-> [calls[i] EXCEPT !.latest = FALSE]]

RemoveAt(seq, i) == SubSeq(seq, 1, i - 1) \o SubSeq(seq, i + 1, Len(seq))

\* The observer lastInit after a call has returned ret: "true" once any call
\* returns true; "false" when the latest call made returns false.
noteReturn(ret, latest) ==
    IF ret THEN "true" ELSE IF latest THEN "false" ELSE lastInit

\* Lines 94-95: take the loader singleton (created on first use, for
\* context c) and start loading; the call then waits for loadSamples.
acquireLoader(c) ==
    IF loader.id = 0
    THEN [id |-> loaderCount + 1, ctx |-> c, samples |-> {}, isLoaded |-> FALSE]
    ELSE loader

\* Faulty variant of the reset: the id counter restarts, the voices stay.
resetVoiceTrackingIdOnly ==
    [activeVoices |-> activeVoices, voices |-> voices, nextVoiceId |-> 1]

\* Lines 77-79: engine.activeVoices = []; nextVoiceId = 1.  The voices the
\* engine no longer tracks are dropped from the model with it.
resetVoiceTracking ==
    [activeVoices |-> <<>>, voices |-> <<>>, nextVoiceId |-> 1]

\* Lines 72-95 of initAudioEngine, up to its first await: merge the config,
\* reset voice tracking, create the context.  bornState is "throws" when the
\* AudioContext constructor raises (the call returns false), otherwise the
\* state the new context starts in.
initBegin(cfg, bornState, by, maxCtx) ==
    /\ config' = cfg
    /\ activeVoices' = resetVoiceTracking.activeVoices
    /\ voices' = resetVoiceTracking.voices
    /\ nextVoiceId' = resetVoiceTracking.nextVoiceId
    /\ jamOutputGain' = NoNode
    /\ IF bornState = "throws"
       THEN /\ lastCall' = initCall("initAudioEngine", FALSE, by)
            /\ lastInit' = "false"
            /\ initCalls' = notLatest(initCalls)
            /\ UNCHANGED <<ctx, ctxCount, now, ctxState, sampleLoader, loader, loaderCount,
                           fetching>>
       ELSE /\ ctxCount < maxCtx
            /\ ctx' = ctxCount + 1
            /\ ctxCount' = ctxCount + 1
            /\ now' = 0
            /\ ctxState' = bornState
            /\ lastCall' = initCall("initAudioEngine:start", FALSE, by)
            /\ lastInit' = "pending"
            /\ IF bornState = "suspended"
               THEN /\ initCalls' = Append(notLatest(initCalls),
                                           suspendedCall("resume", ctxCount + 1, 0, by))
                    /\ UNCHANGED <<sampleLoader, loader, loaderCount, fetching>>
               ELSE LET got == acquireLoader(ctxCount + 1)
                    IN /\ loader' = got
                       /\ loaderCount' = IF loader.id = 0 THEN loaderCount + 1 ELSE loaderCount
                       /\ sampleLoader' = got.id
                       /\ fetching' = startFetches(fetching, uniqueSamples)
                       /\ initCalls' = Append(notLatest(initCalls),
                                              suspendedCall("load", ctxCount + 1, got.id, by))

\* initAudioEngine(): no-op success when initialized and running.
initAudioEngine(bornState, maxCtx) ==
    IF alreadyInitialized
    THEN /\ lastCall' = initCall("initAudioEngine", TRUE, "")
         /\ lastInit' = "true"
         /\ initCalls' = notLatest(initCalls)
         /\ UNCHANGED <<isInitialized, jamOutputGain, ctx, ctxState, now, ctxCount, sampleLoader, loader,
                        loaderCount, config, latencyMetrics, activeVoices, voices,
                        nextVoiceId, perfNow, loadBatch, fetching, recorded, mixerVars>>
    ELSE /\ initBegin(config, bornState, "", maxCtx)
         /\ UNCHANGED <<isInitialized, latencyMetrics, perfNow, loadBatch, recorded, mixerVars>>

\* Call i resumes after `await engine.ctx.resume()`; ok = the promise
\* resolved.  resume() of a closed context rejects.
initResumed(i, ok) ==
    /\ i \in 1..Len(initCalls)
    /\ initCalls[i].pc = "resume"
    /\ initCalls[i].closed => ~ok
    /\ IF ok
       THEN LET got == acquireLoader(ctx)
            IN /\ ctxState' = IF ctx = initCalls[i].ctx THEN "running" ELSE ctxState
               /\ loader' = got
               /\ loaderCount' = IF loader.id = 0 THEN loaderCount + 1 ELSE loaderCount
               /\ sampleLoader' = got.id
               /\ fetching' = startFetches(fetching, uniqueSamples)
               /\ initCalls' = [initCalls EXCEPT ![i].pc = "load", ![i].loader = got.id]
               /\ lastCall' = initCall("initAudioEngine:resumed", FALSE, initCalls[i].by)
               /\ UNCHANGED lastInit
       ELSE /\ initCalls' = RemoveAt(initCalls, i)
            /\ lastCall' = initCall("initAudioEngine", FALSE, initCalls[i].by)
            /\ lastInit' = noteReturn(FALSE, initCalls[i].latest)
            /\ UNCHANGED <<ctxState, sampleLoader, loader, loaderCount, fetching>>
    /\ UNCHANGED <<isInitialized, jamOutputGain, ctx, now, ctxCount, config, latencyMetrics,
                   activeVoices, voices, nextVoiceId, perfNow, loadBatch, recorded,
                   mixerVars>>

\* Call i resumes after `await loadAllSamples()`: the batch is complete, the
\* paths in succeeded were fetched and decoded; then line 140 of
\* loadAllSamples, which raises when engine.sampleLoader is null, and lines
\* 97-110, which raise when engine.ctx is null.
initLoaded(i, succeeded) ==
    /\ i \in 1..Len(initCalls)
    /\ initCalls[i].pc = "load"
    /\ initCalls' = RemoveAt(initCalls, i)
    /\ loader' = IF loader.id # 0 /\ loader.id = initCalls[i].loader
                 THEN [loader EXCEPT !.samples = @ \cup (IF loader.ctx = 0 THEN {} ELSE succeeded),
                                     !.isLoaded = TRUE]
                 ELSE loader
    /\ fetching' = IF loader.id # 0 /\ loader.id = initCalls[i].loader
                   THEN endFetches(fetching, uniqueSamples)
                   ELSE fetching
    /\ IF sampleLoader = 0 \/ ctx = 0
       THEN /\ lastCall' = initCall("initAudioEngine", FALSE, initCalls[i].by)
            /\ lastInit' = noteReturn(FALSE, initCalls[i].latest)
            /\ UNCHANGED <<isInitialized, jamOutputGain, mixerVars>>
       ELSE /\ jamOutputGain' = createGain(initCalls[i].ctx, ctx)
            /\ initMixerEngineBody(ctx, createGain(initCalls[i].ctx, ctx))
            /\ isInitialized' = TRUE
            /\ lastCall' = initCall("initAudioEngine", TRUE, initCalls[i].by)
            /\ lastInit' = noteReturn(TRUE, initCalls[i].latest)
    /\ UNCHANGED <<ctx, ctxState, now, ctxCount, sampleLoader, loaderCount, config,
                   latencyMetrics, activeVoices, voices, nextVoiceId, perfNow,
                   loadBatch, recorded>>

\* A Partial<AudioConfig>: each field is a value or Absent, the key not being
\* in the object.
Absent == -999

\* Faulty variant of the merge: the fields not given go back to the defaults.
mergeConfigReplace(cfg, patch) ==
    [f \in DOMAIN cfg |-> IF patch[f] # Absent THEN patch[f] ELSE DefaultConfig[f]]

\* Line 324: { ...engine.config, ...newConfig }, on the fields the engine reads.
mergeConfig(cfg, patch) ==
    [f \in DOMAIN cfg |-> IF patch[f] # Absent THEN patch[f] ELSE cfg[f]]

\* Line 327: newConfig.sampleRate || newConfig.latencyHint, a test of
\* truthiness; the patches of the model carry no latencyHint.
isCritical(patch) == patch.sampleRate # Absent /\ patch.sampleRate # 0

\* updateAudioConfig(newConfig): merge; a sampleRate or latencyHint in the
\* patch clears isInitialized and calls initAudioEngine, whose promise is
\* dropped.
updateAudioConfigPatch(patch, bornState, maxCtx) ==
    IF isCritical(patch)
    THEN /\ isInitialized' = FALSE
         /\ initBegin(mergeConfig(config, patch), bornState, "updateAudioConfig", maxCtx)
         /\ UNCHANGED <<latencyMetrics, perfNow, loadBatch, recorded, mixerVars>>
    ELSE /\ config' = mergeConfig(config, patch)
         /\ lastCall' = Call("updateAudioConfig", "", FALSE, FALSE, FALSE, "",
                             <<patch.maxVoices, patch.preTriggerOffset, patch.sampleRate>>)
         /\ UNCHANGED <<isInitialized, jamOutputGain, ctx, ctxState, now, ctxCount, sampleLoader,
                        loader, loaderCount, latencyMetrics, activeVoices, voices,
                        nextVoiceId, perfNow, initCalls, lastInit, loadBatch, fetching, recorded,
                        mixerVars>>

\* The call with a patch that gives both fields the engine reads, and a
\* sampleRate when critical.
updateAudioConfig(cfg, critical, bornState, maxCtx) ==
    updateAudioConfigPatch([maxVoices |-> cfg.maxVoices,
                            preTriggerOffset |-> cfg.preTriggerOffset,
                            sampleRate |-> IF critical THEN DefaultSampleRate ELSE Absent],
                           bornState, maxCtx)

\* cleanupAudioEngine(): the context it closes may be one a suspended call
\* is waiting to resume.
cleanupAudioEngine ==
    /\ cleanupMixerEngineBody
    /\ loader' = NoLoader
    /\ fetching' = NoFetches
    /\ activeVoices' = <<>>
    /\ voices' = <<>>
    /\ nextVoiceId' = 1
    /\ ctx' = 0
    /\ ctxState' = "none"
    /\ now' = 0
    /\ sampleLoader' = 0
    /\ latencyMetrics' = <<>>
    /\ recorded' = <<>>
    /\ isInitialized' = FALSE
    /\ jamOutputGain' = NoNode
    /\ initCalls' = [i \in 1..Len(initCalls) |->
                       IF ctx # 0 /\ initCalls[i].ctx = ctx
                       THEN [initCalls[i] EXCEPT !.closed = TRUE, !.cleaned = TRUE]
                       ELSE [initCalls[i] EXCEPT !.cleaned = TRUE]]
    /\ lastCall' = engineCall("cleanupAudioEngine", FALSE)
    /\ UNCHANGED <<ctxCount, loaderCount, config, perfNow, lastInit, loadBatch>>

-----------------------------------------------------------------------------
(* Specifications *)

Init ==
    /\ isInitialized = FALSE
    /\ jamOutputGain = NoNode
    /\ ctx = 0
    /\ ctxState = "none"
    /\ now = 0
    /\ ctxCount = 0
    /\ sampleLoader = 0
    /\ loader = NoLoader
    /\ loaderCount = 0
    /\ config = DefaultConfig
    /\ latencyMetrics = <<>>
    /\ activeVoices = <<>>
    /\ voices = <<>>
    /\ nextVoiceId = 1
    /\ perfNow = 0
    /\ initCalls = <<>>
    /\ lastInit = "none"
    /\ loadBatch = NoBatch
    /\ fetching = NoFetches
    /\ mixerCtx = 0
    /\ mixerDest = NoNode
    /\ stateRef = NoSnapshot
    /\ jam = InitialJam
    /\ mixerInit = FALSE
    /\ mixerTracks = {}
    /\ trackState = <<>>
    /\ trackGain = <<>>
    /\ soloActive = FALSE
    /\ mixerReturns = {}
    /\ returnState = <<>>
    /\ returnGain = <<>>
    /\ master = NoMaster
    /\ masterState = DefaultMasterState
    /\ defaultEq = DefaultEq
    /\ animationFrame = 0
    /\ pendingFrames = {}
    /\ lastCall = NoCall
    /\ recorded = <<>>

\* Wall-clock durations of a triggerDrum call.
Elapsed == {1}

BornStates == {"suspended", "running"}

\* Outcomes of a load batch: the set of paths fetched and decoded.
LoadOutcomes == {SamplePaths, SamplePaths \ {"openhat.wav"}, {}}

TriggerDrum == \E d \in DrumIds, e \in Elapsed : triggerDrum(d, TRUE, e, MaxPerfNow)
OnEnded == \E id \in 1..Len(voices) : onended(id)
\* In Spec every caller waits for the initialization in flight.
InitAudioEngine ==
    \E b \in BornStates : initCalls = <<>> /\ initAudioEngine(b, MaxCtx)
InitResumed == \E i \in 1..Len(initCalls), ok \in BOOLEAN : initResumed(i, ok)
InitLoaded == \E i \in 1..Len(initCalls), ok \in LoadOutcomes : initLoaded(i, ok)
UpdateAudioConfig ==
    \E cfg \in ConfigSet, critical \in BOOLEAN, b \in BornStates :
        /\ critical => initCalls = <<>>
        /\ updateAudioConfig(cfg, critical, b, MaxCtx)
CleanupAudioEngine == cleanupAudioEngine
CleanupMixerEngine == cleanupMixerEngine

Tick == tick(MaxTicks)

Next ==
    \/ TriggerDrum
    \/ OnEnded
    \/ Tick
    \/ InitAudioEngine
    \/ InitResumed
    \/ InitLoaded
    \/ UpdateAudioConfig
    \/ CleanupAudioEngine
    \/ CleanupMixerEngine

Spec == Init /\ [][Next]_vars

-----------------------------------------------------------------------------
(* SpecVoices: the voice allocator on an initialized engine.  It starts in  *)
(* the state Spec reaches by initAudioEngine with every sample loaded.      *)

Ready ==
    /\ isInitialized = TRUE
    /\ jamOutputGain = createGain(1, 1)
    /\ ctx = 1
    /\ ctxState = "running"
    /\ now = 0
    /\ ctxCount = 1
    /\ sampleLoader = 1
    /\ loader = [id |-> 1, ctx |-> 1, samples |-> SamplePaths, isLoaded |-> TRUE]
    /\ loaderCount = 1
    /\ config = DefaultConfig
    /\ latencyMetrics = <<>>
    /\ activeVoices = <<>>
    /\ voices = <<>>
    /\ nextVoiceId = 1
    /\ perfNow = 0
    /\ initCalls = <<>>
    /\ lastInit = "true"
    /\ loadBatch = NoBatch
    /\ fetching = NoFetches
    /\ mixerCtx = 1
    /\ mixerDest = createGain(1, 1)
    /\ stateRef = NoSnapshot
    /\ jam = InitialJam
    /\ mixerInit = TRUE
    /\ mixerTracks = PadIds
    /\ trackState = initialTrackState
    /\ trackGain = initialTrackGain
    /\ soloActive = FALSE
    /\ mixerReturns = ReturnIds
    /\ returnState = initialReturnState
    /\ returnGain = initialReturnGain
    /\ master = initialMaster(1)
    /\ masterState = DefaultMasterState
    /\ defaultEq = DefaultEq
    /\ animationFrame = 1
    /\ pendingFrames = {1}
    /\ recorded = <<>>

InitVoices == Ready /\ lastCall = initCall("initAudioEngine", TRUE, "")

VoiceTrigger == \E d \in DrumIds : triggerDrum(d, TRUE, 1, VoicePerfNow)
VoiceTick == tick(VoiceTicks)
VoiceConfig == \E cfg \in ConfigSet : updateAudioConfig(cfg, FALSE, "running", 0)

NextVoices ==
    \/ VoiceTrigger
    \/ OnEnded
    \/ VoiceTick
    \/ VoiceConfig

SpecVoices == InitVoices /\ [][NextVoices]_vars

-----------------------------------------------------------------------------
(* engine.ts: getLatencyStats *)

\* latencies.reduce((a, b) => a + b, 0) over the latencies lo..hi; the sum
\* of integers is taken half by half to keep the recursion shallow.
RECURSIVE SumRange(_, _, _)
SumRange(s, lo, hi) ==
    IF lo > hi THEN 0
    ELSE IF lo = hi THEN s[lo]
    ELSE LET mid == (lo + hi) \div 2
         IN SumRange(s, lo, mid) + SumRange(s, mid + 1, hi)

SumSeq(s) == SumRange(s, 1, Len(s))

\* Math.min / Math.max over the latencies lo..hi of a non-empty array.
RECURSIVE MinRange(_, _, _)
MinRange(s, lo, hi) ==
    IF lo = hi THEN s[lo]
    ELSE LET mid == (lo + hi) \div 2
         IN Min(MinRange(s, lo, mid), MinRange(s, mid + 1, hi))

RECURSIVE MaxRange(_, _, _)
MaxRange(s, lo, hi) ==
    IF lo = hi THEN s[lo]
    ELSE LET mid == (lo + hi) \div 2
         IN Max(MaxRange(s, lo, mid), MaxRange(s, mid + 1, hi))

\* Faulty variant of the minimum: the first latency.
MinSeqFirst(s) == s[1]

\* Math.min(...latencies) and Math.max(...latencies).
MinSeq(s) == MinRange(s, 1, Len(s))

MaxSeq(s) == MaxRange(s, 1, Len(s))

\* getLatencyStats(); avg is the exact quotient avgNum / avgDen.
getLatencyStats(window) ==
    IF Len(window) = 0
    THEN [avgNum |-> 0, avgDen |-> 1, min |-> 0, max |-> 0, count |-> 0]
    ELSE LET latencies == [i \in 1..Len(window) |-> window[i].latency]
         IN [avgNum |-> SumSeq(latencies), avgDen |-> Len(latencies),
             min |-> MinSeq(latencies), max |-> MaxSeq(latencies),
             count |-> Len(latencies)]

-----------------------------------------------------------------------------
(* SpecLatency: the latency window on an initialized engine, over enough   *)
(* triggers to fill it.  Calls vary (callback or not, duration 1 or 2)     *)
(* until the wall clock reaches VaryUntil; later calls pass a callback     *)
(* and take one unit.                                                      *)

InitLatency == Ready /\ lastCall = initCall("initAudioEngine", TRUE, "")

LatencyTrigger ==
    \E d \in {"kick", "bogus"}, cb \in BOOLEAN, e \in {1, 2} :
        /\ perfNow < VaryUntil \/ (cb /\ e = 1)
        /\ triggerDrum(d, cb, e, MaxRecordings)

NextLatency ==
    \/ LatencyTrigger
    \/ CleanupAudioEngine

SpecLatency == InitLatency /\ [][NextLatency]_vars

-----------------------------------------------------------------------------
(* SpecMixer: the track mutators on an initialized mixer. *)

InitMixer == Ready /\ lastCall = initCall("initAudioEngine", TRUE, "")

SetTrackVolume == \E id \in DrumIds, v \in Volumes : setTrackVolume(id, v)
ToggleTrackMute == \E id \in DrumIds : toggleTrackMute(id)
ToggleTrackSolo == \E id \in DrumIds : toggleTrackSolo(id)
InitMixerEngine == initMixerEngine

NextMixer ==
    \/ SetTrackVolume
    \/ ToggleTrackMute
    \/ ToggleTrackSolo
    \/ InitMixerEngine
    \/ CleanupMixerEngine

SpecMixer == InitMixer /\ [][NextMixer]_vars

-----------------------------------------------------------------------------
(* SpecMaster: the master bus, the VU loop and the mixer's initialization   *)
(* and cleanup, from the state the program starts in.  The engine is        *)
(* initialized with a running context; the mixer is also initialized and    *)
(* cleaned up directly.                                                     *)

MasterVolumes == {50, 85}
EqLows == {0, 3}
EqMids == {-2, 0}
EqHighs == {0, 1}
MidFreqs == {1000, 1200}
Thresholds == {-18, -10}
Attacks == {5, 10}
VuLevels == {0, 1}

\* One initialization at a time, as in Spec.
MasterInitEngine == initCalls = <<>> /\ initAudioEngine("running", MaxCtx)
SetMasterVolume == \E v \in MasterVolumes : setMasterVolume(v)
SetMasterEQ ==
    \E low \in EqLows, mid \in EqMids, high \in EqHighs, has \in BOOLEAN, f \in MidFreqs :
        setMasterEQ(low, mid, high, has, f)
SetMasterCompressor ==
    \E t \in Thresholds, a \in Attacks, en \in BOOLEAN :
        setMasterCompressor(t, 4, a, 100, en)
VuFrame == \E id \in pendingFrames, level \in VuLevels : vuFrame(id, level)

NextMaster ==
    \/ MasterInitEngine
    \/ InitLoaded
    \/ InitMixerEngine
    \/ CleanupMixerEngine
    \/ SetMasterVolume
    \/ SetMasterEQ
    \/ SetMasterCompressor
    \/ VuFrame

SpecMaster == Init /\ [][NextMaster]_vars

-----------------------------------------------------------------------------
(* SpecLoader: one SampleLoader, created for context 1, and one loadSamples *)
(* call on it over any batch of ids drawn from LoaderIds, each entry        *)
(* succeeding or failing on its own.                                        *)

NewSampleLoader == newSampleLoader(1)
LoadSamples == \E entries \in SUBSET LoaderIds : loadSamples(entries)
LoadSample == \E id \in LoaderIds, ok \in BOOLEAN : loadSample(id, ok)
LoadSamplesDone == loadSamplesDone

NextLoader ==
    \/ NewSampleLoader
    \/ LoadSamples
    \/ LoadSample
    \/ LoadSamplesDone

SpecLoader == Init /\ [][NextLoader]_vars

-----------------------------------------------------------------------------
(* SpecLifecycle: the engine lifecycle with overlapping calls.  Nothing     *)
(* makes a caller wait for an initialization in flight: updateAudioConfig   *)
(* drops the promise of the initAudioEngine call it makes, so calls of      *)
(* initAudioEngine, updateAudioConfig, the two cleanups and triggerDrum     *)
(* interleave with the resumption of suspended calls.  The AudioContext     *)
(* constructor may raise.                                                   *)

LifeBornStates == BornStates \cup {"throws"}
LifeDrumIds == {"kick", "bogus"}

LifeInitAudioEngine == \E b \in LifeBornStates : initAudioEngine(b, LifeCtx)
LifeUpdateAudioConfig ==
    \E critical \in BOOLEAN, b \in LifeBornStates :
        updateAudioConfig(config, critical, b, LifeCtx)
LifeTriggerDrum == \E d \in LifeDrumIds : triggerDrum(d, TRUE, 1, LifePerfNow)

NextLifecycle ==
    \/ LifeInitAudioEngine
    \/ InitResumed
    \/ InitLoaded
    \/ LifeUpdateAudioConfig
    \/ LifeTriggerDrum
    \/ CleanupAudioEngine
    \/ CleanupMixerEngine

SpecLifecycle == Init /\ [][NextLifecycle]_vars

-----------------------------------------------------------------------------
(* SpecGraph: the mixer graph over the mixer's life: built by the engine's  *)
(* initialization or by a direct initMixerEngine call, torn down by either  *)
(* cleanup, with mutes and solos toggled in between.                        *)

NextGraph ==
    \/ MasterInitEngine
    \/ InitLoaded
    \/ InitMixerEngine
    \/ ToggleTrackMute
    \/ ToggleTrackSolo
    \/ CleanupMixerEngine
    \/ CleanupAudioEngine

SpecGraph == Init /\ [][NextGraph]_vars

-----------------------------------------------------------------------------
(* SpecVelocity: triggers with a velocity on an initialized engine while    *)
(* the fader, the mute and the solo of the kick strip are moved.            *)

\* Velocities a caller passes, in hundredths: negative, nominal, above 1.5.
Velocities == {-50, 70, 200}

VelocityDrums == {"kick", "hihat"}

VelocityTrigger ==
    \E d \in VelocityDrums, v \in Velocities :
        triggerDrumWith(d, v, TRUE, 1, VelPerfNow, FALSE)
VelocityVolume == \E v \in Volumes : setTrackVolume("kick", v)
VelocityMute == toggleTrackMute("kick")
VelocitySolo == toggleTrackSolo("kick")

NextVelocity ==
    \/ VelocityTrigger
    \/ VelocityVolume
    \/ VelocityMute
    \/ VelocitySolo

SpecVelocity == InitVoices /\ [][NextVelocity]_vars

-----------------------------------------------------------------------------
(* SpecSchedule: triggers on an initialized engine under a negative, a zero  *)
(* and a positive preTriggerOffset, with voices whose gain automation may    *)
(* raise when they are force-stopped.                                        *)

\* Settings passed to updateAudioConfig; the engine starts with the default
\* (32 voices, offset 0).  The positive offset is longer than one tick.
ScheduleConfigs == [maxVoices : {1}, preTriggerOffset : {-5, 20}]

ScheduleDrums == {"kick", "hihat"}

ScheduleTrigger ==
    \E d \in ScheduleDrums, faulty \in BOOLEAN :
        triggerDrumWith(d, DefaultVelocity, TRUE, 1, SchedPerfNow, faulty)
ScheduleTick == tick(SchedTicks)
ScheduleConfig ==
    \E cfg \in ScheduleConfigs : updateAudioConfig(cfg, FALSE, "running", 0)

NextSchedule ==
    \/ ScheduleTrigger
    \/ OnEnded
    \/ ScheduleTick
    \/ ScheduleConfig

SpecSchedule == InitVoices /\ [][NextSchedule]_vars

-----------------------------------------------------------------------------
(* SpecConfig: updateAudioConfig with partial patches on an initialized     *)
(* engine with voices playing; a patch with a sampleRate re-initializes,    *)
(* and the engine may be cleaned up and initialized again.                  *)

Patches ==
    { [maxVoices |-> 1, preTriggerOffset |-> Absent, sampleRate |-> Absent],
      [maxVoices |-> 2, preTriggerOffset |-> Absent, sampleRate |-> Absent],
      [maxVoices |-> Absent, preTriggerOffset |-> 20, sampleRate |-> Absent],
      [maxVoices |-> 1, preTriggerOffset |-> -5, sampleRate |-> Absent],
      [maxVoices |-> Absent, preTriggerOffset |-> Absent, sampleRate |-> Absent],
      [maxVoices |-> Absent, preTriggerOffset |-> Absent, sampleRate |-> 44100] }

ConfigPatch ==
    \E patch \in Patches :
        /\ isCritical(patch) => initCalls = <<>>
        /\ updateAudioConfigPatch(patch, "running", CfgCtx)
ConfigLoaded == \E i \in 1..Len(initCalls) : initLoaded(i, SamplePaths)
ConfigTrigger == triggerDrum("kick", TRUE, 1, CfgPerfNow)
ConfigCleanup == cleanupAudioEngine
ConfigInit == initCalls = <<>> /\ initAudioEngine("running", CfgCtx)

NextConfig ==
    \/ ConfigPatch
    \/ ConfigLoaded
    \/ ConfigTrigger
    \/ ConfigCleanup
    \/ ConfigInit

SpecConfig == InitVoices /\ [][NextConfig]_vars

-----------------------------------------------------------------------------
(* Properties of the voice allocator (SpecVoices) *)

\* The step just taken is a triggerDrum call / one that returned true.
TriggerStep == lastCall'.op = "triggerDrum"
AcceptedStep == TriggerStep /\ lastCall'.ret

ActiveIds == Range(activeVoices)

\* Voices of the active set that step 1 keeps: not ended, endTime ahead.
Unfinished == { id \in ActiveIds : ~voices[id].ended /\ voices[id].endTime > now }

\* C1: with config.maxVoices = M >= 1 unchanged over the calls, the active
\* set holds at most M voices after each triggerDrum call: a call that
\* returns true leaves at most M, and any call that starts with at most M
\* leaves at most M.
C1_PolyphonyCeiling ==
    [][ (TriggerStep /\ config.maxVoices >= 1
           /\ (lastCall'.ret \/ Len(activeVoices) <= config.maxVoices))
        => Len(activeVoices') <= config'.maxVoices ]_vars

\* C1 witness: an accepted trigger fills the active set to the ceiling after
\* more voices than the ceiling were created.
C1_Witness ==
    /\ lastCall.op = "triggerDrum" /\ lastCall.ret
    /\ Len(activeVoices) = config.maxVoices
    /\ Len(voices) > config.maxVoices
    /\ \A id \in ActiveIds : ~voices[id].ended /\ voices[id].endTime > now

\* Voices an accepted call evicted for polyphony: they were kept by the prune
\* step, are not choked by the new voice, and have left the active set.
EvictedBy(newId) ==
    { id \in Unfinished :
        /\ id \notin Range(activeVoices')
        /\ ~(voices'[newId].chokeGroup = "hihat" /\ voices[id].chokeGroup = "hihat") }

\* C2: the voices an accepted triggerDrum call evicts are the lowest-id
\* voices left after pruning and choking: every evicted voice has a smaller
\* id than every voice that stays in the active set.
C2_EvictsOldest ==
    [][ AcceptedStep =>
          LET newId == Len(voices')
          IN \A e \in EvictedBy(newId) : \A k \in Range(activeVoices') :
                 voices'[e].id < voices'[k].id ]_vars

\* C2 witness: after an accepted trigger, an older non-hihat voice has been
\* stopped and removed while a younger one stays next to the new voice.
C2_Witness ==
    /\ lastCall.op = "triggerDrum" /\ lastCall.ret
    /\ Len(activeVoices) >= 2
    /\ \E e \in 1..Len(voices) :
          /\ voices[e].stopped /\ voices[e].chokeGroup = "null"
          /\ e \notin ActiveIds
          /\ \A k \in ActiveIds : k > e

\* C3 as stated: after an accepted trigger of a hihat pad the active set
\* holds exactly one hihat voice, the new one, every hihat voice that was in
\* the active set before the call is stopped, and the choke step stops no
\* other voice.
HihatStep == AcceptedStep /\ voices'[Len(voices')].chokeGroup = "hihat"

OnlyNewHihat ==
    { id \in Range(activeVoices') : voices'[id].chokeGroup = "hihat" } = {Len(voices')}

\* Non-hihat voices kept by the prune step are untouched unless polyphony
\* needs the room.
OthersUntouched ==
    LET others == { id \in Unfinished : voices[id].chokeGroup # "hihat" }
    IN Cardinality(others) < Max(1, config.maxVoices)
         => \A id \in others : /\ id \in Range(activeVoices')
                                /\ voices'[id].stopped = voices[id].stopped

C3_Original ==
    [][ HihatStep =>
          /\ OnlyNewHihat
          /\ \A id \in ActiveIds : voices[id].chokeGroup = "hihat" => voices'[id].stopped
          /\ OthersUntouched ]_vars

\* C3 amended: ... every hihat voice of the active set that had not finished
\* (not ended, endTime after the audio clock) is stopped; a hihat voice that
\* had finished is dropped by the prune step and keeps its stopped flag.
C3_HihatChoke ==
    [][ HihatStep =>
          /\ OnlyNewHihat
          /\ \A id \in ActiveIds :
                voices[id].chokeGroup = "hihat" =>
                  /\ id \in Unfinished => voices'[id].stopped
                  /\ id \notin Unfinished => voices'[id].stopped = voices[id].stopped
          /\ OthersUntouched ]_vars

\* C3 witness: a hit on one hihat pad followed by a hit on the other: the
\* first hihat voice is stopped and gone, a kick voice is still active and
\* not stopped.
C3_Witness ==
    /\ lastCall.op = "triggerDrum" /\ lastCall.ret
    /\ Len(voices) >= 3
    /\ voices[Len(voices)].chokeGroup = "hihat"
    /\ \E h \in 1..Len(voices) - 1 :
          /\ voices[h].chokeGroup = "hihat"
          /\ voices[h].drumId # voices[Len(voices)].drumId
          /\ voices[h].stopped
          /\ h \notin ActiveIds
    /\ \E k \in ActiveIds : voices[k].chokeGroup = "null" /\ ~voices[k].stopped

-----------------------------------------------------------------------------
(* Properties of rejected triggers (Spec) *)

\* The buffer of pad d is in the engine's sample loader.
BufferLoaded(d) ==
    \E p \in DRUM_PADS :
        /\ p.id = d
        /\ sampleLoader # 0 /\ sampleLoader = loader.id
        /\ p.samplePath \in loader.samples

\* C4: a triggerDrum call whose drumId matches no pad, or whose sample
\* buffer is not loaded, returns false and leaves the active set, every
\* voice's flags, the voice-id counter and the latency window as they were.
C4_UnknownOrUnloadedNoEffect ==
    [][ (TriggerStep /\ (lastCall'.drumId \notin PadIds \/ ~BufferLoaded(lastCall'.drumId)))
        => /\ ~lastCall'.ret
           /\ UNCHANGED <<activeVoices, voices, nextVoiceId, latencyMetrics>> ]_vars

\* C4 witness: on an initialized engine with an active voice, a trigger of a
\* pad whose sample failed to load has just been rejected.
C4_Witness ==
    /\ lastCall.op = "triggerDrum" /\ ~lastCall.ret
    /\ lastCall.drumId = "openhat"
    /\ isInitialized /\ mixerInit
    /\ "openhat.wav" \notin loader.samples
    /\ Len(activeVoices) > 0
    /\ Len(latencyMetrics) > 0

\* C5: every triggerDrum call that returns false leaves the active set and
\* the stopped flag of every voice as they were, whatever the cause of the
\* rejection (missing mixer track included).
C5_RejectedIsNoOp ==
    [][ (TriggerStep /\ ~lastCall'.ret) => UNCHANGED <<activeVoices, voices>> ]_vars

-----------------------------------------------------------------------------
(* Properties of the latency window (SpecLatency) *)

Count(window) == getLatencyStats(window).count

\* C6: every triggerDrum call that returns true appends one entry
\* to the latency window (count grows by one up to the cap of 100); a call
\* that returns false appends none.
C6_AcceptedAppendsOne ==
    [][ TriggerStep =>
          IF lastCall'.ret
          THEN Count(latencyMetrics') = Min(Count(latencyMetrics) + 1, 100)
          ELSE latencyMetrics' = latencyMetrics ]_vars

\* C7: the window never holds more than 100 entries and always equals the
\* last min(N, 100) of the N entries recorded, in recording order.
C7_WindowIsLastHundred ==
    LET n == Len(recorded)
        k == Min(n, 100)
    IN /\ Len(latencyMetrics) <= 100
       /\ latencyMetrics = SubSeq(recorded, n - k + 1, n)

\* C7 witness: 150 entries were recorded, 100 are held, the first 50 are gone.
C7_Witness ==
    /\ Len(recorded) = 150
    /\ Len(latencyMetrics) = 100
    /\ latencyMetrics[1] = recorded[51]
    /\ \A i \in 1..50 : \A j \in 1..100 : latencyMetrics[j] # recorded[i]

-----------------------------------------------------------------------------
(* Properties of the track mutators (SpecMixer) *)

\* C9: on an initialized mixer every track's fader target is 0 when the
\* track is muted; otherwise, when any track is soloed, the track's volume
\* if it is soloed itself and 0 if not; otherwise the track's volume.
C9_EffectiveGain ==
    mixerInit =>
      \A id \in mixerTracks :
        trackGain[id] =
          IF trackState[id].muted THEN 0
          ELSE IF \E other \in mixerTracks : trackState[other].soloed
               THEN (IF trackState[id].soloed THEN trackState[id].volume ELSE 0)
               ELSE trackState[id].volume

\* C9 witness: one track soloed and audible, one soloed but muted, one
\* neither and silenced although its volume is not 0.
C9_Witness ==
    /\ mixerInit
    /\ \E a, b, c \in mixerTracks :
          /\ trackState[a].soloed /\ ~trackState[a].muted /\ trackGain[a] = 5
          /\ trackState[b].soloed /\ trackState[b].muted /\ trackGain[b] = 0
          /\ ~trackState[c].soloed /\ ~trackState[c].muted
          /\ trackState[c].volume > 0 /\ trackGain[c] = 0

\* C10: MixerState.soloActive is true exactly when some track is soloed.
C10_SoloActive ==
    soloActive <=> (\E id \in DOMAIN trackState : trackState[id].soloed)

\* C10 witness: a solo was just switched off while another track is still
\* soloed, so the flag stays on.
C10_Witness ==
    /\ lastCall.op = "toggleTrackSolo" /\ ~lastCall.ret
    /\ lastCall.drumId \in mixerTracks
    /\ soloActive
    /\ \E id \in mixerTracks : ~trackState[id].soloed

-----------------------------------------------------------------------------
(* Properties of the master bus and of mixer initialization and cleanup    *)
(* (SpecMaster)                                                            *)

\* C12: on an initialized mixer, after setMasterEQ(low, mid, high, midFreq)
\* getMixerState().master.eq is {lowGain: low, midGain: mid, highGain: high,
\* midFreq: midFreq}; when midFreq is omitted the previous midFreq is kept.
C12_EqRoundTrip ==
    [][ (lastCall'.op = "setMasterEQ" /\ mixerInit) =>
          LET a == lastCall'.args
          IN getMixerState'.master.eq =
               [lowGain |-> a[1], midGain |-> a[2], highGain |-> a[3],
                midFreq |-> IF a[4] # <<>> THEN a[4][1]
                            ELSE getMixerState.master.eq.midFreq] ]_vars

\* C12 witness: setMasterEQ(3, -2, 1, 1200) has just run on an initialized
\* mixer and the state query returns these four values.
C12_Witness ==
    /\ mixerInit
    /\ lastCall.op = "setMasterEQ" /\ lastCall.args = <<3, -2, 1, <<1200>> >>
    /\ getMixerState.master.eq =
          [lowGain |-> 3, midGain |-> -2, highGain |-> 1, midFreq |-> 1200]

\* C18: initMixerEngine on an initialized mixer returns true and leaves the
\* nodes, the mirror and the VU loop as they were; while the mixer is
\* initialized exactly one VU frame request is pending (one loop runs).
C18_InitMixerIdempotent ==
    [][ /\ (lastCall'.op = "initMixerEngine" /\ mixerInit)
            => (lastCall'.ret /\ UNCHANGED mixerVars)
        /\ mixerInit' => Cardinality(pendingFrames') = 1 ]_vars

\* C18 witness: initMixerEngine has just returned on a mixer whose master
\* fader was moved before the call and is still where it was put.
C18_Witness ==
    /\ lastCall.op = "initMixerEngine" /\ lastCall.ret
    /\ mixerInit
    /\ master.volume = 50 /\ masterState.volume = 50
    /\ pendingFrames = {animationFrame}

\* C19: after cleanupMixerEngine the mixer is as before its first
\* initialization: not initialized, no track, return or master nodes, no VU
\* frame pending, and the state query returns empty maps, soloActive false
\* and the default master bus (volume 0.85, EQ 0/0/0 at 1000 Hz, default
\* compressor), whatever mutators ran before.
C19_CleanupRestoresDefaults ==
    lastCall.op = "cleanupMixerEngine" =>
      /\ ~mixerInit
      /\ mixerTracks = {} /\ mixerReturns = {} /\ master = NoMaster
      /\ animationFrame = 0 /\ pendingFrames = {}
      /\ getMixerState =
            [tracks |-> <<>>, returns |-> <<>>,
             master |-> [volume |-> 85,
                         eq |-> [lowGain |-> 0, midGain |-> 0, highGain |-> 0,
                                 midFreq |-> 1000],
                         compressor |-> DefaultCompressor, vuMeter |-> 0],
             soloActive |-> FALSE]

\* C20: cleanupMixerEngine never raises, in any state, and a second
\* consecutive call leaves the mixer as the first left it.
C20_CleanupRepeatable ==
    [][ lastCall'.op = "cleanupMixerEngine" =>
          /\ ~lastCall'.threw
          /\ ~mixerInit' /\ master' = NoMaster /\ pendingFrames' = {}
          /\ lastCall.op = "cleanupMixerEngine" => UNCHANGED mixerVars ]_vars

\* C20 witness: cleanupMixerEngine has run on a mixer that was never
\* initialized.
C20_Witness ==
    /\ lastCall.op = "cleanupMixerEngine" /\ ~lastCall.threw
    /\ ctxCount = 0 /\ ~mixerInit /\ master = NoMaster

-----------------------------------------------------------------------------
(* Properties of the sample loader (SpecLoader) *)

\* C13: loadSamples on a fresh loader always completes; before it does
\* isReady() is false; afterwards isReady() is true, getSample gives null for
\* every id whose entry failed and the buffer for every other id of the
\* batch, and getLoadedSampleIds is exactly the set of successful ids.
C13_FailuresContained ==
    /\ loadBatch.started /\ ~loadBatch.done => ~isReady
    /\ loadBatch.done =>
         /\ isReady
         /\ ~lastCall.threw
         /\ \A id \in loadBatch.failed : SampleLoader_getSample(id) = "null"
         /\ \A id \in loadBatch.entries \ loadBatch.failed :
                SampleLoader_getSample(id) = "buffer"
         /\ getLoadedSampleIds = loadBatch.entries \ loadBatch.failed

-----------------------------------------------------------------------------
(* Properties of the engine lifecycle (SpecLifecycle) *)

\* A step in which initAudioEngine is called directly (not by
\* updateAudioConfig): it returns at once or suspends; a step that resumes a
\* suspended call removes it from initCalls or is marked ":resumed".
InitInvoked ==
    /\ lastCall'.op \in {"initAudioEngine", "initAudioEngine:start"}
    /\ lastCall'.by = ""
    /\ Len(initCalls') >= Len(initCalls)

\* C14: initAudioEngine called while the engine is initialized and its
\* context is running returns true and changes nothing: no context is
\* created, the active voices and the voice-id counter are kept, the mixer
\* and the sample store are not touched.
C14_InitIdempotent ==
    [][ InitInvoked /\ isInitialized /\ ctxState = "running" =>
          /\ lastCall'.op = "initAudioEngine"
          /\ lastCall'.ret
          /\ UNCHANGED <<isInitialized, jamOutputGain, ctx, ctxState, now, ctxCount, sampleLoader,
                         loader, loaderCount, config, latencyMetrics, activeVoices,
                         voices, nextVoiceId, perfNow, mixerVars>> ]_vars

C14_Witness ==
    /\ lastCall = initCall("initAudioEngine", TRUE, "")
    /\ isInitialized /\ ctxState = "running"
    /\ initCalls = <<>>
    /\ activeVoices # <<>> /\ nextVoiceId = 2

\* A step in which a suspended initAudioEngine call, made by
\* updateAudioConfig, returns true.
ReinitCompleted ==
    /\ lastCall'.op = "initAudioEngine"
    /\ lastCall'.by = "updateAudioConfig"
    /\ lastCall'.ret
    /\ Len(initCalls') < Len(initCalls)

\* C15: when the re-initialization started by updateAudioConfig (for a new
\* sampleRate or latencyHint) completes successfully, the mixer's nodes and
\* the sample loader belong to the engine's new context, not to the
\* previous one.
C15_ReinitRebuilds ==
    [][ ReinitCompleted =>
          /\ mixerInit' /\ mixerCtx' = ctx' /\ master'.ctx = ctx'
          /\ sampleLoader' = loader'.id /\ loader'.ctx = ctx' ]_vars

\* C16: while the latest initAudioEngine call made has returned false and no
\* call has returned true since, the engine is not exposed as ready:
\* isAudioEngineReady() is false and every triggerDrum call returns false.
C16_FailedInitNotReady ==
    [][ /\ lastInit' = "false" => ~isAudioEngineReady'
        /\ lastInit = "false" /\ TriggerStep => ~lastCall'.ret ]_vars

\* C17: triggerDrum never raises an exception to its caller, whatever calls
\* of initAudioEngine, updateAudioConfig, cleanupAudioEngine and
\* cleanupMixerEngine came before it.
C17_TriggerNeverRaises ==
    [][ TriggerStep => ~lastCall'.threw ]_vars

-----------------------------------------------------------------------------
(* Further properties of the master bus (SpecMaster) *)

\* C21: after setMasterCompressor on an initialized mixer the compressor
\* node's threshold, ratio, attack and release targets equal the values of
\* the MixerState mirror (attack and release converted from ms to s),
\* whether enabled is true or false.
C21_CompressorNodeMatchesMirror ==
    lastCall.op = "setMasterCompressor" /\ mixerInit /\ master.ctx # 0 =>
        /\ masterState.compressor.threshold = lastCall.args[1]
        /\ masterState.compressor.enabled = lastCall.args[5]
        /\ master.threshold = masterState.compressor.threshold
        /\ master.ratio = masterState.compressor.ratio
        /\ master.attack = msToSeconds(masterState.compressor.attack)
        /\ master.release = msToSeconds(masterState.compressor.release)

-----------------------------------------------------------------------------
(* Properties of sample loading (SpecLifecycle) *)

\* C22: the sample store loads each distinct URL once: load requests for the
\* same URL, from pads sharing a samplePath or from load batches that overlap
\* in time, result in a single fetch, so no URL ever has two fetches in
\* flight on the store.
C22_SingleFetchPerUrl ==
    \A u \in Urls : fetching[u] <= 1

-----------------------------------------------------------------------------
(* Properties of the mixer graph (SpecGraph) *)

\* Nodes reachable from the nodes of frontier along the connections E.
RECURSIVE ReachFrom(_, _, _)
ReachFrom(E, frontier, seen) ==
    LET next == { e[2] : e \in { d \in E : d[1] \in frontier } } \ seen
    IN IF next = {} THEN seen ELSE ReachFrom(E, next, seen \cup next)

Reach(E, n) == ReachFrom(E, {n}, {n})

Successors(E, n) == { e[2] : e \in { d \in E : d[1] = n } }
Predecessors(E, n) == { e[1] : e \in { d \in E : d[2] = n } }

\* The connections that do not touch the master bus's input node.
AroundMaster(E) ==
    { e \in E : e[1] # masterNode("input") /\ e[2] # masterNode("input") }

\* The master chain followed by the destination.
MasterPath ==
    [i \in 1..Len(MasterChain) |-> masterNode(MasterChain[i])] \o <<Destination>>

\* C23: after mixer initialization there is exactly one channel strip per
\* drum pad id; every strip's input and every return's input reaches the
\* destination, and only through the master bus's input; the master chain
\* is input, EQ low, EQ mid, EQ high, compressor, limiter, fader, analyser,
\* destination with nothing entering or leaving in between; the master input
\* is fed by the strips' and the returns' analysers only, and every send is
\* fed by its strip's fader only (post-fader).
C23_GraphThroughMaster ==
    mixerInit =>
      LET E == connections
      IN /\ mixerTracks = PadIds
         /\ \A t \in mixerTracks :
              /\ Destination \in Reach(E, trackNode(t, "inputGain"))
              /\ Destination \notin Reach(AroundMaster(E), trackNode(t, "inputGain"))
              /\ \A r \in mixerReturns :
                   /\ returnNode(r, "input") \in Reach(E, trackNode(t, "inputGain"))
                   /\ Predecessors(E, sendNode(t, r)) = {trackNode(t, "volume")}
         /\ \A r \in mixerReturns :
              /\ Destination \in Reach(E, returnNode(r, "input"))
              /\ Destination \notin Reach(AroundMaster(E), returnNode(r, "input"))
         /\ \A i \in 1..Len(MasterChain) :
              /\ Successors(E, MasterPath[i]) = {MasterPath[i + 1]}
              /\ Predecessors(E, MasterPath[i + 1]) = {MasterPath[i]}
         /\ Predecessors(E, masterNode("input")) =
              { trackNode(t, "analyser") : t \in mixerTracks }
              \cup { returnNode(r, "analyser") : r \in mixerReturns }

\* C23 witness: a mixer has just been initialized; the kick strip reaches the
\* destination and the input of the delay return.
C23_Witness ==
    /\ mixerInit
    /\ lastCall.op = "initMixerEngine"
    /\ Cardinality(mixerTracks) = Cardinality(PadIds)
    /\ Destination \in Reach(connections, trackNode("kick", "inputGain"))
    /\ returnNode("return-1", "feedback") \in Reach(connections, trackNode("kick", "inputGain"))

-----------------------------------------------------------------------------
(* Further properties of the voice allocator (SpecVoices) *)

\* C26: a voice whose end-of-playback notification has fired (ended = true)
\* is no longer in the active set.
C26_EndedNotActive ==
    \A id \in ActiveIds : ~voices[id].ended

-----------------------------------------------------------------------------
(* Properties of the per-voice gain (SpecVelocity) *)

\* The voice created by the step just taken.
CreatedVoice == voices'[Len(voices')]

\* C24: for every velocity passed to an accepted triggerDrum call, the new
\* voice's initial gain is min(1.5, max(0, velocity)), whatever the fader
\* volume, the mute and the solo state of the tracks; the call leaves the
\* track gains as they are.
C24_GainFromVelocity ==
    [][AcceptedStep =>
         /\ Len(voices') = Len(voices) + 1
         /\ LET velocity == lastCall'.args[1]
                clamped == IF velocity < 0 THEN 0
                           ELSE IF velocity > 150 THEN 150 ELSE velocity
            IN CreatedVoice.gain = clamped
         /\ trackGain' = trackGain
         /\ trackState' = trackState]_vars

\* C24 witness: a kick triggered at velocity 2.0 on its muted strip, fader
\* down, got the gain 1.5; a voice triggered at a negative velocity got 0.
C24_Witness ==
    /\ lastCall.op = "triggerDrum" /\ lastCall.ret
    /\ lastCall.drumId = "kick"
    /\ lastCall.args = <<200>>
    /\ trackState["kick"].muted
    /\ trackState["kick"].volume = 0
    /\ voices[Len(voices)].gain = 150
    /\ \E id \in 1..Len(voices) : voices[id].gain = 0

-----------------------------------------------------------------------------
(* Properties of the admission sequence (SpecVoices) *)

\* Voices of the active set that have finished: ended, or endTime at or
\* before the current audio time.
Finished == { id \in ActiveIds : voices[id].ended \/ voices[id].endTime <= now }

\* The active set once the finished voices and, for a hihat trigger, the
\* hihat voices are taken out of it, in its order.
AfterChoke ==
    SelectSeq(activeVoices,
              LAMBDA id : /\ id \notin Finished
                          /\ ~(CreatedVoice.chokeGroup = "hihat"
                                /\ voices[id].chokeGroup = "hihat"))

\* Number of voices the step just taken evicted for polyphony.
EvictedCount == Len(AfterChoke) - (Len(activeVoices') - 1)

\* C25: an accepted triggerDrum call is one step that prunes, chokes, evicts
\* and creates in this order: a voice that has ended or whose endTime is at
\* or before the current audio time leaves the active set without being
\* force-stopped, even a hihat under a hihat trigger; the voices evicted for
\* polyphony are the oldest ones left after pruning and choking, and there
\* are some only if that set holds at least maxVoices voices; the new voice
\* comes last; the clock and the configuration are those of the call.
C25_AdmissionOrder ==
    [][AcceptedStep =>
         LET maxVoices == IF config.maxVoices < 1 THEN 1 ELSE config.maxVoices
             k == EvictedCount
         IN /\ Len(voices') = Len(voices) + 1
            /\ \A id \in Finished :
                  /\ id \notin Range(activeVoices')
                  /\ voices'[id] = voices[id]
            /\ k >= 0
            /\ k > 0 => Len(AfterChoke) >= maxVoices
            /\ activeVoices' = SubSeq(AfterChoke, k + 1, Len(AfterChoke))
                                  \o <<CreatedVoice.id>>
            /\ \A i \in 1..k : voices'[AfterChoke[i]].stopped
            /\ \A i \in (k + 1)..Len(AfterChoke) :
                  voices'[AfterChoke[i]] = voices[AfterChoke[i]]
            /\ now' = now
            /\ config' = config]_vars

\* C25 witness: a hihat trigger has just dropped a finished hihat voice that
\* was never force-stopped, and evicted a kick voice that was still playing.
C25_Witness ==
    /\ lastCall.op = "triggerDrum" /\ lastCall.ret
    /\ lastCall.drumId = "hihat"
    /\ \E a, b \in 1..Len(voices) :
          /\ voices[a].chokeGroup = "hihat"
          /\ ~voices[a].stopped
          /\ voices[a].endTime <= now
          /\ a \notin ActiveIds
          /\ a # voices[Len(voices)].id
          /\ voices[b].drumId = "kick"
          /\ voices[b].stopped
          /\ voices[b].endTime > now
          /\ voices[b].stopAt = now + FADE_OUT_MS + STOP_GUARD_MS

-----------------------------------------------------------------------------
(* Properties of force-stop and of the voice schedule (SpecSchedule) *)

\* Voices the step just taken force-stopped.
NewlyStopped ==
    { id \in 1..Len(voices) : ~voices[id].stopped /\ voices'[id].stopped }

\* C27: a voice that a triggerDrum call force-stops (choke or eviction) was
\* in the active set and is out of it when the call returns, and the call
\* leaves its nodes connected and its ended flag alone; a voice's nodes are
\* disconnected only by its own end-of-playback callback, a later step that
\* changes nothing but that voice's ended flag.
C27_StopRemovesNotDisconnects ==
    [][/\ TriggerStep =>
            \A id \in NewlyStopped :
                /\ id \in ActiveIds
                /\ id \notin Range(activeVoices')
                /\ voices'[id].connected = voices[id].connected
                /\ voices'[id].ended = voices[id].ended
       /\ \A id \in 1..Len(voices) :
              (voices[id].connected /\ ~voices'[id].connected) =>
                  /\ ~TriggerStep
                  /\ ~voices[id].ended
                  /\ voices' = [voices EXCEPT ![id].ended = TRUE,
                                              ![id].connected = FALSE]
                  /\ activeVoices' = activeVoices
                  /\ now' = now]_vars

\* C27 witness: a voice that a trigger force-stopped and took out of the
\* active set was still connected when that call returned; its callback has
\* now run, after the hard stop, and has disconnected it.
C27_Witness ==
    /\ lastCall = NoCall
    /\ \E id \in 1..Len(voices) :
          /\ voices[id].stopped
          /\ id \notin ActiveIds
          /\ voices[id].ended /\ ~voices[id].connected
          /\ voices[id].stopAt <= now
          /\ voices[id].endTime > now

\* C28: force-stopping a voice schedules, from base = max(currentTime,
\* voice.startTime), the hard stop at base + 16 ms and, when the automation
\* calls go through, the ramp from base to 0 at base + 15 ms: the hard stop
\* is strictly after the end of the fade and the fade never starts before
\* the voice's start; a stopped voice is never scheduled again.
C28_FadeThenStop ==
    [][/\ TriggerStep =>
            \A id \in NewlyStopped :
                LET base == IF now > voices[id].startTime THEN now
                            ELSE voices[id].startTime
                IN /\ voices'[id].stopAt = base + 16
                   /\ ~voices[id].gainFaulty =>
                         /\ voices'[id].fadeStart = base
                         /\ voices'[id].fadeEnd = base + 15
                         /\ voices'[id].stopAt > voices'[id].fadeEnd
                         /\ voices'[id].fadeStart >= voices[id].startTime
                         /\ voices'[id].fadeStart >= now
       /\ \A id \in 1..Len(voices) :
              voices[id].stopped =>
                  /\ voices'[id].stopped
                  /\ voices'[id].stopAt = voices[id].stopAt
                  /\ voices'[id].fadeStart = voices[id].fadeStart
                  /\ voices'[id].fadeEnd = voices[id].fadeEnd]_vars

\* C28 witness: the last trigger force-stopped a voice scheduled 20 ms ahead
\* before it had started: the fade runs from its start time, later than the
\* clock, and the hard stop is 1 ms after the fade.
C28_Witness ==
    /\ lastCall.op = "triggerDrum" /\ lastCall.ret
    /\ \E id \in 1..Len(voices) :
          /\ voices[id].stopped
          /\ voices[id].startTime > now
          /\ voices[id].fadeStart = voices[id].startTime
          /\ voices[id].fadeEnd = voices[id].startTime + FADE_OUT_MS
          /\ voices[id].stopAt = voices[id].fadeEnd + STOP_GUARD_MS

\* C29: every voice created by triggerDrum has startTime = currentTime +
\* max(0, preTriggerOffset / 1000 s) and endTime = startTime + the buffer's
\* duration, so startTime is not before the clock at the trigger and
\* endTime >= startTime, for a negative offset too; the times of a voice
\* never change afterwards.
C29_VoiceTimes ==
    [][/\ AcceptedStep =>
            LET offset == IF config.preTriggerOffset > 0
                          THEN config.preTriggerOffset ELSE 0
                buffer == (CHOOSE p \in DRUM_PADS : p.id = lastCall'.drumId).samplePath
            IN /\ Len(voices') = Len(voices) + 1
               /\ CreatedVoice.startTime = now + offset
               /\ CreatedVoice.endTime = CreatedVoice.startTime + Duration(buffer)
               /\ CreatedVoice.startTime >= now
               /\ CreatedVoice.endTime >= CreatedVoice.startTime
       /\ \A id \in 1..Len(voices) :
              /\ voices'[id].startTime = voices[id].startTime
              /\ voices'[id].endTime = voices[id].endTime]_vars

\* C29 witness: after a tick, a kick triggered under preTriggerOffset = -5
\* starts at the current time, and an earlier voice triggered under
\* preTriggerOffset = 20 starts 20 ms after the time of its trigger.
C29_Witness ==
    /\ lastCall.op = "triggerDrum" /\ lastCall.ret
    /\ lastCall.drumId = "kick"
    /\ config.preTriggerOffset = -5
    /\ now = TickMs
    /\ voices[Len(voices)].startTime = now
    /\ voices[Len(voices)].endTime = now + 20
    /\ \E id \in 1..Len(voices) : voices[id].startTime = 20

\* Voices of the active set whose gain automation raises, that the step just
\* taken had to force-stop: unfinished and no longer in the active set.
FaultyStops ==
    { id \in ActiveIds \ Finished :
          voices[id].gainFaulty /\ id \notin Range(activeVoices') }

\* C30: when the gain automation of a voice raises during force-stop, the
\* error is swallowed: the voice is marked stopped, the hard stop of its
\* source is scheduled, the voice is out of the active set, and the
\* enclosing triggerDrum call creates the new voice and returns true.
C30_AutomationErrorSwallowed ==
    [][(TriggerStep /\ FaultyStops # {}) =>
         /\ lastCall'.ret
         /\ ~lastCall'.threw
         /\ Len(voices') = Len(voices) + 1
         /\ activeVoices'[Len(activeVoices')] = CreatedVoice.id
         /\ ~CreatedVoice.stopped
         /\ \A id \in FaultyStops :
               /\ voices'[id].stopped
               /\ voices'[id].stopAt >= now + FADE_OUT_MS
               /\ id \notin Range(activeVoices')]_vars

\* C30 witness: the last trigger returned true and its voice is active; a
\* voice whose automation raised is stopped with a hard stop scheduled and
\* no ramp, and is out of the active set.
C30_Witness ==
    /\ lastCall.op = "triggerDrum" /\ lastCall.ret
    /\ activeVoices # <<>>
    /\ activeVoices[Len(activeVoices)] = Len(voices)
    /\ \E id \in 1..Len(voices) :
          /\ voices[id].gainFaulty
          /\ voices[id].stopped
          /\ voices[id].stopAt >= 0
          /\ voices[id].fadeEnd = -1
          /\ id \notin ActiveIds

-----------------------------------------------------------------------------
(* Properties of updateAudioConfig (SpecConfig) *)

\* The step just taken is an updateAudioConfig call whose patch holds
\* neither sampleRate nor latencyHint.
PlainConfigStep ==
    /\ lastCall'.op = "updateAudioConfig"
    /\ lastCall'.args[3] = Absent

\* C31: updateAudioConfig with a patch holding neither sampleRate nor
\* latencyHint changes only the config fields given: isInitialized, the
\* context, the active set, the voices, the latency window and the other
\* config fields are unchanged; the next accepted triggerDrum call uses the
\* maxVoices and the preTriggerOffset then in the configuration.
C31_ConfigPatchFrame ==
    [][/\ PlainConfigStep =>
            /\ config'.maxVoices = IF lastCall'.args[1] = Absent
                                   THEN config.maxVoices ELSE lastCall'.args[1]
            /\ config'.preTriggerOffset = IF lastCall'.args[2] = Absent
                                          THEN config.preTriggerOffset
                                          ELSE lastCall'.args[2]
            /\ isInitialized' = isInitialized
            /\ ctx' = ctx /\ ctxState' = ctxState /\ ctxCount' = ctxCount
            /\ sampleLoader' = sampleLoader
            /\ activeVoices' = activeVoices
            /\ voices' = voices
            /\ latencyMetrics' = latencyMetrics
            /\ initCalls' = initCalls
       /\ AcceptedStep =>
            /\ config' = config
            /\ Len(activeVoices') <= (IF config.maxVoices < 1 THEN 1
                                      ELSE config.maxVoices)
            /\ CreatedVoice.startTime =
                  now + (IF config.preTriggerOffset > 0
                         THEN config.preTriggerOffset ELSE 0)]_vars

\* C31 witness: the last call gave only maxVoices = 1; the offset 20 set by
\* an earlier call is still there, the engine is still initialized, and the
\* two voices triggered before the call are still active, the second one
\* scheduled with the offset.
C31_Witness ==
    /\ lastCall.op = "updateAudioConfig"
    /\ lastCall.args = <<1, Absent, Absent>>
    /\ config = [maxVoices |-> 1, preTriggerOffset |-> 20]
    /\ isInitialized /\ ctxState = "running"
    /\ Len(activeVoices) = 2
    /\ voices[activeVoices[2]].startTime = 20

\* C33: the number of active voices is at most config.maxVoices in every
\* reachable state, also after updateAudioConfig has lowered maxVoices while
\* voices are active and before the next triggerDrum call.
C33_CountWithinMaxVoices ==
    Len(activeVoices) <= config.maxVoices

-----------------------------------------------------------------------------
(* Invariants of the active set *)

\* C37: in every reachable state no voice of the active set has stopped =
\* true: a force-stopped voice leaves the set in the step that stops it.
C37_NoStoppedActive ==
    \A i \in 1..Len(activeVoices) : ~voices[activeVoices[i]].stopped

\* C37 witness: voices have been force-stopped, one by the choke and one by
\* the polyphony limit, and a voice is active.
C37_Witness ==
    /\ activeVoices # <<>>
    /\ \E a, b \in 1..Len(voices) :
          /\ voices[a].stopped /\ voices[a].chokeGroup = "hihat"
          /\ voices[b].stopped /\ voices[b].chokeGroup # "hihat"
          /\ a \notin ActiveIds /\ b \notin ActiveIds

\* C39: in every reachable state the active set is in strictly increasing
\* order of voice id, without duplicates, so its first element is the oldest
\* voice, and every id in it is below the id counter; initAudioEngine and
\* cleanupAudioEngine take the counter back to 1 only with the set empty.
C39_ActiveSetOrdered ==
    [][/\ \A i, j \in 1..Len(activeVoices') :
              i < j => voices'[activeVoices'[i]].id < voices'[activeVoices'[j]].id
       /\ \A i \in 1..Len(activeVoices') :
              voices'[activeVoices'[i]].id < nextVoiceId'
       /\ nextVoiceId' < nextVoiceId =>
              nextVoiceId' = 1 /\ activeVoices' = <<>>]_vars

\* C39 witness: on the second context, after a cleanup and a new
\* initialization, the counter has restarted and the voices triggered
\* since then are active in the order of their ids.
C39_Witness ==
    /\ ctx = 2 /\ isInitialized
    /\ lastCall.op = "triggerDrum" /\ lastCall.ret
    /\ perfNow = 3
    /\ activeVoices = <<1, 2>>
    /\ nextVoiceId = 3

-----------------------------------------------------------------------------
(* Properties of cleanup during initialization (SpecLifecycle) *)

\* Call i returns in the step just taken.
Returns(i) ==
    /\ lastCall'.op = "initAudioEngine"
    /\ initCalls' = RemoveAt(initCalls, i)

\* C35: an initAudioEngine call that was suspended at one of its awaits
\* when cleanupAudioEngine ran returns false and leaves the engine cleaned
\* up: not initialized and, unless a later call has set them since, no
\* context, no sample loader and no loader singleton.
C35_CleanupAbortsInit ==
    [][\A i \in 1..Len(initCalls) :
          (initCalls[i].cleaned /\ Returns(i)) =>
              /\ ~lastCall'.ret
              /\ ~isInitialized'
              /\ ctx = 0 => (ctx' = 0 /\ sampleLoader' = 0 /\ loader' = NoLoader)]_vars

\* C34: whenever the engine is initialized, the mixer is built on the
\* engine's current context and plays into the engine's current jam output
\* gain node, itself a node of that context, also after initAudioEngine has
\* been called again before an earlier call finished; the engine, its
\* sample loader, its jam gain and the mixer then use one context.
C34_MixerOnEngineContext ==
    isInitialized =>
        /\ mixerInit
        /\ mixerCtx = ctx
        /\ jamOutputGain # NoNode
        /\ mixerDest = jamOutputGain
        /\ Cardinality({ctx, mixerCtx, mixerDest.ctx, jamOutputGain.ctx, loader.ctx}) = 1

-----------------------------------------------------------------------------
(* The return faders: setReturnVolume and toggleReturnMute called on two   *)
(* of the returns and on an id that names none, with the mixer torn down   *)
(* and built again in between.                                              *)

ReturnInputs == {"return-0", "return-1", "return-9"}

\* Fader values in tenths.
ReturnVolumes == {0, 5, 10}

ReturnVolume == \E r \in ReturnInputs, v \in ReturnVolumes : setReturnVolume(r, v)

ReturnMute == \E r \in ReturnInputs : toggleReturnMute(r)

ReturnCleanup == cleanupMixerEngine

ReturnInit == initMixerEngine

NextReturns ==
    \/ ReturnVolume
    \/ ReturnMute
    \/ ReturnCleanup
    \/ ReturnInit

SpecReturns == InitMixer /\ [][NextReturns]_vars

\* C36: a return whose mirror says muted has fader target 0 in every
\* reachable state, also after setReturnVolume was called on it while
\* muted; unmuting sets the target to the return's mirrored volume.
C36_MutedReturnSilent ==
    \A r \in mixerReturns : returnState[r].muted => returnGain[r] = 0

\* The second half of C36 alone: a toggle that unmutes sets the target to
\* the mirrored volume.
C36_UnmuteRestores ==
    [][\A r \in mixerReturns :
          (lastCall'.op = "toggleReturnMute" /\ lastCall'.drumId = r
             /\ r \in DOMAIN returnState' /\ returnState[r].muted /\ ~returnState'[r].muted)
          => returnGain'[r] = returnState'[r].volume]_vars

-----------------------------------------------------------------------------
(* useMixer holding a MixerState in stateRef.current while the mixer is     *)
(* driven through its handlers and directly, and torn down and rebuilt.     *)

SnapshotTracks == {"kick", "cowbell"}

SnapshotVolumes == {3, 8}

SnapshotLows == {0, 3}

SnapshotLevels == {0, 5}

SnapshotInit == useMixerInit

SnapshotInterval == useMixerInterval

SnapshotHandleVolume ==
    \E t \in SnapshotTracks, v \in SnapshotVolumes : handleSetTrackVolume(t, v)

SnapshotHandleEQ == \E low \in SnapshotLows : handleSetMasterEQ(low, 0, 0, FALSE, 0)

SnapshotSetVolume == \E t \in SnapshotTracks, v \in SnapshotVolumes : setTrackVolume(t, v)

SnapshotSetEQ == \E low \in SnapshotLows : setMasterEQ(low, 0, 0, FALSE, 0)

SnapshotVuFrame == \E id \in pendingFrames, level \in SnapshotLevels : vuFrame(id, level)

SnapshotCleanup == cleanupMixerEngine

NextSnapshot ==
    \/ SnapshotInit
    \/ SnapshotInterval
    \/ SnapshotHandleVolume
    \/ SnapshotHandleEQ
    \/ SnapshotSetVolume
    \/ SnapshotSetEQ
    \/ SnapshotVuFrame
    \/ SnapshotCleanup

SpecSnapshot == InitMixer /\ [][NextSnapshot]_vars

\* The step just taken is a call of a mixer function or a VU frame, not a
\* step of useMixer.
MixerStep ==
    lastCall'.op \notin {"useMixerInit", "useMixerInterval", "handleSetTrackVolume",
                         "handleSetMasterEQ"}

\* The step just taken is a useMixer handler whose mixer function returned
\* at its guard.
HandlerOnlyStep ==
    \/ /\ lastCall'.op = "handleSetMasterEQ"
       /\ (master.ctx = 0 \/ mixerCtx = 0)
    \/ /\ lastCall'.op = "handleSetTrackVolume"
       /\ (lastCall'.drumId \notin DOMAIN trackState \/ mixerCtx = 0)

\* C38: a value getMixerState returned is a snapshot: what it shows does
\* not change when mixer functions are called or VU frames run afterwards,
\* and what useMixer writes into it does not change the mixer's own state.
C38_SnapshotIsolated ==
    [][/\ (stateRef.taken /\ MixerStep) =>
              readSnapshot(stateRef', trackState', returnState', defaultEq')
                  = readSnapshot(stateRef, trackState, returnState, defaultEq)
       /\ (stateRef.taken /\ HandlerOnlyStep) => getMixerState' = getMixerState]_vars

-----------------------------------------------------------------------------
(* JamAlong under bursts of duck() calls, slider moves and a clock that    *)
(* advances in steps; the browser runs every timer that is due and the     *)
(* clock does not stop short of its bound.                                  *)

JamStepMs == 90
JamMaxNow == 540

JamVolumes == {0, 40}

JamDuck == duck(JamMaxNow)

JamTimer == \E t \in jam.timers : duckTimerFires(t)

JamVolume == \E v \in JamVolumes : setYoutubeVolume(v)

JamToggle == toggleDuckEnabled

JamReady == onReady

JamClock == jamClock(JamStepMs, JamMaxNow)

NextJam ==
    \/ JamDuck
    \/ JamTimer
    \/ JamVolume
    \/ JamToggle
    \/ JamReady
    \/ JamClock

SpecJam == Init /\ [][NextJam]_vars

SpecJamLive == SpecJam /\ WF_vars(JamTimer) /\ WF_vars(JamClock)

\* A duck() has lowered the volume and its restore is outstanding.
Ducked == lastCall.op = "duck" /\ lastCall.ret

\* The player is at the base volume and the latest duck() is at least
\* restoreMs old.
Restored ==
    /\ jam.playerVolume = jam.baseVolume
    /\ perfNow >= jam.lastDuckAt + restoreMs

\* The step just taken set the player's volume and was not a duck().
VolumeRaised == jam'.playerVolume # jam.playerVolume /\ lastCall'.op # "duck"

====
